---------------------------- MODULE Spec2Model ----------------------------
(***************************************************************************)
(* Verification model of the openclaw security middleware:                 *)
(*   - tool policy engine (capability matrix, rate limiter, schema         *)
(*     validator, confirmation gate)                                       *)
(*   - audit logger (structured events, hash chain, buffered shipper)      *)
(* Each component has its own specification (SpecGate, SpecPolicy,         *)
(* SpecAudit); the variables of the other components stay at their         *)
(* initial values.                                                         *)
(***************************************************************************)
EXTENDS Integers, Sequences, FiniteSets, TLC

VARIABLES
    now,                    \* Date.now(), in milliseconds
    pendingConfirmations,   \* confirmation-gate.ts: module-level Map id -> PendingConfirmation
    gateCfg,                \* cfg of each createConfirmationGate instance
    idNonce,                \* source of the random suffix of generateConfirmationId
    requestedVia,           \* history: the gate instance each id was requested through
    confirmCount,           \* history: how often confirm(id, _) returned confirmed=true
    ret,                    \* the value returned by the last operation
    policyCfg,              \* cfg of the createToolPolicy instance
    sessionUsage,           \* rate-limiter.ts: Map sessionId -> UsageRecord of the engine's limiter
    auditCfg,               \* cfg of the createAuditLogger instance and of its shipper
    lastHash,               \* hash-chain: lastHash
    chainLength,            \* hash-chain: chainLength
    events,                 \* audit logger: events, a list of {event, hash}
    uuidNonce,              \* source of randomUUID()
    buffer,                 \* buffered shipper: buffer (event ids, in push order)
    timer,                  \* buffered shipper: the interval timer is set
    inFlight,               \* pending inner.ship calls: the batch each flushBuffer still holds
    delivered,              \* history: event ids in the order inner.ship was called with them
    innerClosed,            \* inner.close() has been called
    logCalls,               \* state of the promise of each log call, by event id
    closeCall,              \* position of the close() call
    shipErrors,             \* history: rejections of inner.ship and who received them
    acceptedAtClose,        \* history: event ids ship had accepted when close() was called
    checkedAt,              \* history: per session, the times checkToolCall returned allowed
    permits,                \* history: per session, allowed checks whose call is not yet recorded
    overlapped,             \* history: sessions that were checked while a permit was outstanding
    spent,                  \* history: per session, <<UTC day, costUSD>> of each recordTokenSpend
    tokenCfg,               \* cfg of the createTokenStore instance
    tokens,                 \* token-store.ts: Map tokenHash -> TokenMetadata
    userTokens,             \* token-store.ts: Map userId -> Set of tokenHash
    tokenNonce,             \* source of randomBytes()
    issued,                 \* history: raw token -> the metadata it was created with
    revoked,                \* history: raw tokens removed by invalidate or invalidateAll
    skillCfg,               \* cfg of the createSkillGate instance
    approvals,              \* approval-flow.ts: Map skillId -> ApprovalRecord
    navCfg,                 \* cfg of the createNavigationPolicy instance
    navigationRecords,      \* navigation-policy.ts: Map sessionId -> NavigationRecord
    sanitizerCfg,           \* cfg of the createSanitizer instance
    redactorCfg,            \* opts of the createRedactionFilter instance
    outbound                \* the outbound text being composed, a sequence of characters

auditVars == <<auditCfg, lastHash, chainLength, events, uuidNonce, buffer, timer, inFlight,
               delivered, innerClosed, logCalls, closeCall, shipErrors, acceptedAtClose>>

limiterHist == <<checkedAt, permits, overlapped, spent>>

tokenVars == <<tokenCfg, tokens, userTokens, tokenNonce, issued, revoked>>

skillVars == <<skillCfg, approvals>>

navVars == <<navCfg, navigationRecords>>

filterVars == <<sanitizerCfg, redactorCfg, outbound>>

vars == <<now, pendingConfirmations, gateCfg, idNonce, requestedVia, confirmCount,
          ret, policyCfg, sessionUsage, auditVars, limiterHist, tokenVars, skillVars, navVars, filterVars>>

----------------------------------------------------------------------------
(* Bounds of the model *)

\* number of clock advances of TickMs explored
MaxTicks == 2
\* number of confirmation ids ever generated
MaxIds == 2

TickMs == 5 * 60 * 1000

\* prompt-sanitizer/index.ts: DEFAULT_CONFIG
DEFAULT_SANITIZER_CONFIG ==
    [enabled |-> TRUE, logEvents |-> TRUE, strictMode |-> FALSE, highRiskThreshold |-> 50,
     stripUnicode |-> TRUE, normalizeWhitespace |-> TRUE]

\* output-redaction/filter.ts: DEFAULT_REDACTION_OPTIONS; the placeholder
\* template is a sequence of symbols, the entropy threshold is in tenths
DEFAULT_REDACTION_OPTIONS ==
    [strictPatterns |-> FALSE, detectEntropy |-> TRUE, detectBase64 |-> TRUE,
     entropyThreshold |-> 45, minEntropyLength |-> 20,
     placeholder |-> <<"[REDACTED:", "{TYPE}", "]">>, logRedactions |-> TRUE,
     whitelist |-> <<>>]

\* navigation-policy.ts: DEFAULT_NAVIGATION_POLICY; no domain lists
DEFAULT_NAVIGATION_POLICY ==
    [maxNavigationsPerMinute |-> 30, maxNavigationsPerHour |-> 300,
     maxRedirectChainLength |-> 10, allowDataUrls |-> FALSE,
     blockHomographAttacks |-> TRUE]
MaxNow == MaxTicks * TickMs

Sessions == {"s1", "s2"}
\* the session that requests confirmations; both sessions answer them
Requesters == {"s1"}
Gates == {1, 2}

\* a string and a number as values of parameters and arguments
Str(v) == [type |-> "string", value |-> v]
Num(v) == [type |-> "number", value |-> v]

----------------------------------------------------------------------------
(* Clock *)

Tick(d) ==
    /\ now + d <= MaxNow
    /\ now' = now + d
    /\ ret' = [op |-> "tick", gate |-> 0]

----------------------------------------------------------------------------
(* Rate limiter histories and token store: state after construction *)

InitLimiterHist ==
    /\ checkedAt = [s \in Sessions |-> <<>>]
    /\ permits = [s \in Sessions |-> 0]
    /\ overlapped = {}
    /\ spent = [s \in Sessions |-> <<>>]

DEFAULT_TOKEN_STORE_CONFIG ==
    [maxTtlHours |-> 8,
     defaultTtlHours |-> 4,
     bindToClientIp |-> FALSE,
     tokenByteLength |-> 32,
     maxTokensPerUser |-> 10,
     cleanupIntervalMs |-> 5 * 60 * 1000]

InitTokenState ==
    /\ tokens = <<>>
    /\ userTokens = <<>>
    /\ tokenNonce = 0
    /\ issued = <<>>
    /\ revoked = {}

\* the components a specification does not exercise, as constructed
DEFAULT_SKILL_GATE_CONFIG ==
    [autoInstall |-> FALSE,
     requireOwnerApproval |-> TRUE,
     verifyHashes |-> TRUE,
     hashAlgorithm |-> "sha256",
     approvalExpirationMs |-> 24 * 60 * 60 * 1000,
     maxPendingApprovals |-> 50]

InitSkillState ==
    /\ skillCfg = DEFAULT_SKILL_GATE_CONFIG
    /\ approvals = <<>>

InitNavState ==
    /\ navCfg = DEFAULT_NAVIGATION_POLICY
    /\ navigationRecords = <<>>

InitFilterState ==
    /\ sanitizerCfg = DEFAULT_SANITIZER_CONFIG
    /\ redactorCfg = DEFAULT_REDACTION_OPTIONS
    /\ outbound = <<>>

InitIdle ==
    /\ InitLimiterHist
    /\ tokenCfg = DEFAULT_TOKEN_STORE_CONFIG
    /\ InitTokenState
    /\ InitNavState
    /\ InitFilterState
    /\ InitSkillState

----------------------------------------------------------------------------
(* Audit logger: configuration and state after createAuditLogger *)

\* JS undefined and the empty string, as values comparable with hashes
Undefined == <<"undefined">>
EmptyString == <<>>

\* DEFAULT_AUDIT_CONFIG with the console shipper, which does not buffer
DEFAULT_AUDIT_CONFIG ==
    [enabled |-> TRUE, hashChain |-> TRUE, buffered |-> FALSE, batchSize |-> 0,
     flushIntervalMs |-> 0]

InitAuditState ==
    /\ lastHash = Undefined
    /\ chainLength = 0
    /\ events = <<>>
    /\ uuidNonce = 0
    /\ buffer = <<>>
    /\ timer = (auditCfg.buffered /\ auditCfg.flushIntervalMs > 0)
    /\ inFlight = {}
    /\ delivered = <<>>
    /\ innerClosed = FALSE
    /\ logCalls = <<>>
    /\ closeCall = "none"
    /\ shipErrors = {}
    /\ acceptedAtClose = {}

----------------------------------------------------------------------------
(* Confirmation gate: src/security/tool-policy/confirmation-gate.ts *)

DEFAULT_CONFIRMATION_CONFIG ==
    [timeoutMs |-> 5 * 60 * 1000,
     requireHighSeverity |-> TRUE,
     requireMediumSeverity |-> TRUE,
     requireLowSeverity |-> FALSE]

\* `confirm_${Date.now()}_${Math.random().toString(36).slice(2, 10)}`: the
\* random suffix is modelled as a nonce that never repeats.
generateConfirmationId(t, nonce) == [ts |-> t, rnd |-> nonce]

\* an id no requestConfirmation ever returned
UnknownId == [ts |-> 0, rnd |-> 0]

IssuedIds == DOMAIN requestedVia

MapSet(m, k, v) == [x \in (DOMAIN m) \cup {k} |-> IF x = k THEN v ELSE m[x]]
MapDelete(m, k) == [x \in (DOMAIN m) \ {k} |-> m[x]]
MapDeleteAll(m, ks) == [x \in (DOMAIN m) \ ks |-> m[x]]

\* PendingConfirmation built by requestConfirmation
NewPending(g, id, sessionId, action, params, reason, category, severity) ==
    [id |-> id,
     action |-> action,
     params |-> params,
     reason |-> reason,
     category |-> category,
     severity |-> severity,
     createdAt |-> now,
     expiresAt |-> now + gateCfg[g].timeoutMs,
     sessionId |-> sessionId]

requestConfirmation(g, sessionId, action, params, reason, category, severity) ==
    LET id == generateConfirmationId(now, idNonce + 1)
        pending == NewPending(g, id, sessionId, action, params, reason, category, severity)
    IN  /\ idNonce < MaxIds
        /\ idNonce' = idNonce + 1
        /\ pendingConfirmations' = MapSet(pendingConfirmations, id, pending)
        /\ requestedVia' = MapSet(requestedVia, id, g)
        /\ confirmCount' = MapSet(confirmCount, id, 0)
        /\ ret' = [op |-> "requestConfirmation", gate |-> g, pending |-> pending]
        /\ UNCHANGED now

\* mutant: a confirmed record is not deleted
confirmResult_KeepsRecord(confirmationId, sessionId) ==
    IF confirmationId \notin DOMAIN pendingConfirmations
    THEN [confirmed |-> FALSE, reason |-> "Confirmation not found or expired", delete |-> FALSE]
    ELSE IF pendingConfirmations[confirmationId].sessionId # sessionId
    THEN [confirmed |-> FALSE, reason |-> "Confirmation belongs to a different session",
          delete |-> FALSE]
    ELSE IF now > pendingConfirmations[confirmationId].expiresAt
    THEN [confirmed |-> FALSE, reason |-> "Confirmation has expired", delete |-> TRUE]
    ELSE [confirmed |-> TRUE, reason |-> "", delete |-> FALSE]

\* mutant: the expiry test is now >= expiresAt
confirmResult_ExpiresEarly(confirmationId, sessionId) ==
    IF confirmationId \notin DOMAIN pendingConfirmations
    THEN [confirmed |-> FALSE, reason |-> "Confirmation not found or expired", delete |-> FALSE]
    ELSE IF pendingConfirmations[confirmationId].sessionId # sessionId
    THEN [confirmed |-> FALSE, reason |-> "Confirmation belongs to a different session",
          delete |-> FALSE]
    ELSE IF now >= pendingConfirmations[confirmationId].expiresAt
    THEN [confirmed |-> FALSE, reason |-> "Confirmation has expired", delete |-> TRUE]
    ELSE [confirmed |-> TRUE, reason |-> "", delete |-> TRUE]

\* the ConfirmationResult of confirm(confirmationId, sessionId)
confirmResult(confirmationId, sessionId) ==
    IF confirmationId \notin DOMAIN pendingConfirmations
    THEN [confirmed |-> FALSE, reason |-> "Confirmation not found or expired", delete |-> FALSE]
    ELSE IF pendingConfirmations[confirmationId].sessionId # sessionId
    THEN [confirmed |-> FALSE, reason |-> "Confirmation belongs to a different session",
          delete |-> FALSE]
    ELSE IF now > pendingConfirmations[confirmationId].expiresAt
    THEN [confirmed |-> FALSE, reason |-> "Confirmation has expired", delete |-> TRUE]
    ELSE [confirmed |-> TRUE, reason |-> "", delete |-> TRUE]

confirm(g, confirmationId, sessionId) ==
    LET r == confirmResult(confirmationId, sessionId)
    IN  /\ pendingConfirmations' =
              IF r.delete THEN MapDelete(pendingConfirmations, confirmationId)
                          ELSE pendingConfirmations
        /\ confirmCount' =
              IF r.confirmed
              THEN [confirmCount EXCEPT ![confirmationId] = @ + 1]
              ELSE confirmCount
        /\ ret' = [op |-> "confirm", gate |-> g, id |-> confirmationId,
                   sessionId |-> sessionId, confirmed |-> r.confirmed, reason |-> r.reason]
        /\ UNCHANGED <<now, idNonce, requestedVia>>

cancel(g, confirmationId) ==
    /\ pendingConfirmations' = MapDelete(pendingConfirmations, confirmationId)
    /\ ret' = [op |-> "cancel", gate |-> g, id |-> confirmationId,
               result |-> (confirmationId \in DOMAIN pendingConfirmations)]
    /\ UNCHANGED <<now, idNonce, requestedVia, confirmCount>>

\* ids in Map iteration (insertion) order: the nonce grows with every insertion
RECURSIVE InsertionOrder(_)
InsertionOrder(ids) ==
    IF ids = {} THEN <<>>
    ELSE LET first == CHOOSE i \in ids : \A j \in ids : i.rnd <= j.rnd
         IN  <<first>> \o InsertionOrder(ids \ {first})

getPending(g, sessionId) ==
    LET mine == {id \in DOMAIN pendingConfirmations :
                    pendingConfirmations[id].sessionId = sessionId}
        expired == {id \in mine : now > pendingConfirmations[id].expiresAt}
    IN  /\ pendingConfirmations' = MapDeleteAll(pendingConfirmations, expired)
        /\ ret' = [op |-> "getPending", gate |-> g, sessionId |-> sessionId,
                   result |-> InsertionOrder(mine \ expired)]
        /\ UNCHANGED <<now, idNonce, requestedVia, confirmCount>>

cleanup(g) ==
    LET expired == {id \in DOMAIN pendingConfirmations :
                       now > pendingConfirmations[id].expiresAt}
    IN  /\ pendingConfirmations' = MapDeleteAll(pendingConfirmations, expired)
        /\ ret' = [op |-> "cleanup", gate |-> g, result |-> Cardinality(expired)]
        /\ UNCHANGED <<now, idNonce, requestedVia, confirmCount>>

----------------------------------------------------------------------------
(* Default configurations of the rate limiter and of the policy engine *)

DEFAULT_RATE_LIMITS ==
    [maxToolCallsPerHour |-> 100,
     maxToolCallsPerMinute |-> 20,
     maxCronJobsPerSession |-> 10,
     maxWebhooksPerSession |-> 5,
     maxDailyTokenBudgetUSD |-> 5,
     maxConcurrentExecutions |-> 5,
     windowSizeMs |-> 60 * 60 * 1000]

\* rateLimits holds the limiter's merged cfg { ...DEFAULT_RATE_LIMITS, ...cfg.rateLimits }
DEFAULT_POLICY_CONFIG ==
    [enableCapabilityChecks |-> TRUE,
     enableRateLimiting |-> TRUE,
     enableSchemaValidation |-> TRUE,
     enableConfirmationGates |-> TRUE,
     defaultSessionType |-> "main-standard",
     rateLimits |-> DEFAULT_RATE_LIMITS]

----------------------------------------------------------------------------
(* Specification of the confirmation gate: two gate instances created by   *)
(* createConfirmationGate() with the default configuration; the clock      *)
(* advances in steps of the confirmation timeout.                          *)

GateConfigs == {[g \in Gates |-> DEFAULT_CONFIRMATION_CONFIG]}

InitGateState ==
    /\ now = 0
    /\ pendingConfirmations = <<>>
    /\ idNonce = 0
    /\ requestedVia = <<>>
    /\ confirmCount = <<>>
    /\ ret = [op |-> "init", gate |-> 0]

InitGate ==
    /\ InitGateState
    /\ gateCfg \in GateConfigs
    /\ policyCfg = DEFAULT_POLICY_CONFIG
    /\ sessionUsage = <<>>
    /\ auditCfg = DEFAULT_AUDIT_CONFIG
    /\ InitAuditState
    /\ InitIdle

GateOther ==
    UNCHANGED <<gateCfg, policyCfg, sessionUsage, auditVars, limiterHist, tokenVars, skillVars, navVars, filterVars>>

NextGate ==
    \/ \E g \in Gates, s \in Requesters :
          requestConfirmation(g, s, "bash", [command |-> "rm -rf /tmp"],
                              "File deletion", "destructive", "high") /\ GateOther
    \/ \E g \in Gates, id \in IssuedIds \cup {UnknownId}, s \in Sessions :
          confirm(g, id, s) /\ GateOther
    \/ \E g \in Gates, id \in IssuedIds \cup {UnknownId} : cancel(g, id) /\ GateOther
    \/ \E g \in Gates, s \in Sessions : getPending(g, s) /\ GateOther
    \/ \E g \in Gates : cleanup(g) /\ GateOther
    \/ Tick(TickMs) /\ UNCHANGED <<pendingConfirmations, idNonce, requestedVia, confirmCount>>
                    /\ GateOther

SpecGate == InitGate /\ [][NextGate]_vars

----------------------------------------------------------------------------
(* Claims about the confirmation gate *)

\* C2: each pending-confirmation id is consumed at most once: over any
\* sequence of requestConfirmation, confirm, cancel, getPending and cleanup
\* calls, confirm returns confirmed=true at most once for any id.
C2_ConsumedAtMostOnce ==
    \A id \in DOMAIN confirmCount : confirmCount[id] <= 1

\* a confirm of an id that was already consumed has been refused
C2_Witness ==
    /\ ret.op = "confirm"
    /\ ~ret.confirmed
    /\ ret.id \in DOMAIN confirmCount
    /\ confirmCount[ret.id] = 1

\* C3: confirm(id, session_id) returns confirmed=true if and only if, when
\* it is called, a pending record with that id exists, its sessionId equals
\* the caller's and the current time is not past its expiresAt; after a
\* successful confirm the record is gone.
C3_ConfirmIff ==
    [][ret'.op = "confirm" =>
          /\ ret'.confirmed <=>
                /\ ret'.id \in DOMAIN pendingConfirmations
                /\ pendingConfirmations[ret'.id].sessionId = ret'.sessionId
                /\ ~(now > pendingConfirmations[ret'.id].expiresAt)
          /\ ret'.confirmed => ret'.id \notin DOMAIN pendingConfirmations']_vars

\* a confirm succeeded exactly at the expiry time and removed the record
C3_Witness ==
    /\ ret.op = "confirm"
    /\ ret.confirmed
    /\ now = ret.id.ts + DEFAULT_CONFIRMATION_CONFIG.timeoutMs
    /\ ret.id \notin DOMAIN pendingConfirmations

\* C4 (as claimed): the pending map is per gate instance: a confirmation
\* requested through one instance is not confirmed, cancelled, listed or
\* cleaned up through another one, and no operation through one instance
\* removes a pending confirmation of another instance.
C4_PendingMapPerEngine ==
    [][/\ (ret'.op = "confirm" /\ ret'.confirmed) => requestedVia[ret'.id] = ret'.gate
       /\ (ret'.op = "getPending") =>
              \A i \in 1..Len(ret'.result) : requestedVia[ret'.result[i]] = ret'.gate
       /\ \A id \in DOMAIN pendingConfirmations :
              (ret'.gate # 0 /\ requestedVia[id] # ret'.gate)
                  => id \in DOMAIN pendingConfirmations']_vars

----------------------------------------------------------------------------
(* Capability matrix: security/tool-policy/capability-matrix.              *)
(* A reason `Capability ${capability} is denied for ${sessionType}         *)
(* sessions` is kept as the tuple of the template's parts, and so are the  *)
(* messages of the rate limiter and of the policy engine.                  *)

SessionTypes ==
    {"main-elevated", "main-standard", "sandbox", "webhook", "cron", "api", "guest"}

Capabilities ==
    {"bash-unrestricted", "bash-sandboxed", "bash-read-only", "browser-cdp",
     "browser-screenshot", "browser-navigate", "file-read", "file-write",
     "file-delete", "canvas-eval", "node-invoke", "sessions-send",
     "sessions-history-own", "sessions-history-other", "sessions-create", "cron-create",
     "cron-delete", "cron-list", "webhook-register", "webhook-delete",
     "skill-install", "skill-execute", "config-read", "config-write"}

Matrix_main_elevated ==
     "bash-unrestricted" :> "allow" @@ "bash-sandboxed" :> "allow" @@
     "bash-read-only" :> "allow" @@ "browser-cdp" :> "allow" @@
     "browser-screenshot" :> "allow" @@ "browser-navigate" :> "allow" @@
     "file-read" :> "allow" @@ "file-write" :> "allow" @@
     "file-delete" :> "confirm" @@ "canvas-eval" :> "allow" @@
     "node-invoke" :> "allow" @@ "sessions-send" :> "allow" @@
     "sessions-history-own" :> "allow" @@ "sessions-history-other" :> "confirm" @@
     "sessions-create" :> "allow" @@ "cron-create" :> "allow" @@
     "cron-delete" :> "allow" @@ "cron-list" :> "allow" @@
     "webhook-register" :> "allow" @@ "webhook-delete" :> "allow" @@
     "skill-install" :> "confirm" @@ "skill-execute" :> "allow" @@
     "config-read" :> "allow" @@ "config-write" :> "confirm"

Matrix_main_standard ==
     "bash-unrestricted" :> "confirm" @@ "bash-sandboxed" :> "allow" @@
     "bash-read-only" :> "allow" @@ "browser-cdp" :> "confirm" @@
     "browser-screenshot" :> "allow" @@ "browser-navigate" :> "allow" @@
     "file-read" :> "allow" @@ "file-write" :> "allow" @@
     "file-delete" :> "confirm" @@ "canvas-eval" :> "confirm" @@
     "node-invoke" :> "confirm" @@ "sessions-send" :> "allow" @@
     "sessions-history-own" :> "allow" @@ "sessions-history-other" :> "deny" @@
     "sessions-create" :> "allow" @@ "cron-create" :> "confirm" @@
     "cron-delete" :> "confirm" @@ "cron-list" :> "allow" @@
     "webhook-register" :> "confirm" @@ "webhook-delete" :> "confirm" @@
     "skill-install" :> "confirm" @@ "skill-execute" :> "allow" @@
     "config-read" :> "allow" @@ "config-write" :> "confirm"

Matrix_sandbox ==
     "bash-unrestricted" :> "deny" @@ "bash-sandboxed" :> "allow" @@
     "bash-read-only" :> "allow" @@ "browser-cdp" :> "deny" @@
     "browser-screenshot" :> "allow" @@ "browser-navigate" :> "confirm" @@
     "file-read" :> "allow" @@ "file-write" :> "confirm" @@
     "file-delete" :> "deny" @@ "canvas-eval" :> "allow" @@
     "node-invoke" :> "deny" @@ "sessions-send" :> "deny" @@
     "sessions-history-own" :> "allow" @@ "sessions-history-other" :> "deny" @@
     "sessions-create" :> "deny" @@ "cron-create" :> "deny" @@
     "cron-delete" :> "deny" @@ "cron-list" :> "allow" @@
     "webhook-register" :> "deny" @@ "webhook-delete" :> "deny" @@
     "skill-install" :> "deny" @@ "skill-execute" :> "confirm" @@
     "config-read" :> "allow" @@ "config-write" :> "deny"

Matrix_webhook ==
     "bash-unrestricted" :> "deny" @@ "bash-sandboxed" :> "confirm" @@
     "bash-read-only" :> "allow" @@ "browser-cdp" :> "deny" @@
     "browser-screenshot" :> "deny" @@ "browser-navigate" :> "deny" @@
     "file-read" :> "allow" @@ "file-write" :> "confirm" @@
     "file-delete" :> "deny" @@ "canvas-eval" :> "deny" @@
     "node-invoke" :> "deny" @@ "sessions-send" :> "confirm" @@
     "sessions-history-own" :> "allow" @@ "sessions-history-other" :> "deny" @@
     "sessions-create" :> "deny" @@ "cron-create" :> "deny" @@
     "cron-delete" :> "deny" @@ "cron-list" :> "allow" @@
     "webhook-register" :> "deny" @@ "webhook-delete" :> "deny" @@
     "skill-install" :> "deny" @@ "skill-execute" :> "confirm" @@
     "config-read" :> "allow" @@ "config-write" :> "deny"

Matrix_cron ==
     "bash-unrestricted" :> "deny" @@ "bash-sandboxed" :> "allow" @@
     "bash-read-only" :> "allow" @@ "browser-cdp" :> "deny" @@
     "browser-screenshot" :> "allow" @@ "browser-navigate" :> "confirm" @@
     "file-read" :> "allow" @@ "file-write" :> "allow" @@
     "file-delete" :> "deny" @@ "canvas-eval" :> "deny" @@
     "node-invoke" :> "deny" @@ "sessions-send" :> "allow" @@
     "sessions-history-own" :> "allow" @@ "sessions-history-other" :> "deny" @@
     "sessions-create" :> "deny" @@ "cron-create" :> "deny" @@
     "cron-delete" :> "deny" @@ "cron-list" :> "allow" @@
     "webhook-register" :> "deny" @@ "webhook-delete" :> "deny" @@
     "skill-install" :> "deny" @@ "skill-execute" :> "allow" @@
     "config-read" :> "allow" @@ "config-write" :> "deny"

Matrix_api ==
     "bash-unrestricted" :> "deny" @@ "bash-sandboxed" :> "confirm" @@
     "bash-read-only" :> "allow" @@ "browser-cdp" :> "deny" @@
     "browser-screenshot" :> "confirm" @@ "browser-navigate" :> "confirm" @@
     "file-read" :> "allow" @@ "file-write" :> "confirm" @@
     "file-delete" :> "deny" @@ "canvas-eval" :> "deny" @@
     "node-invoke" :> "deny" @@ "sessions-send" :> "allow" @@
     "sessions-history-own" :> "allow" @@ "sessions-history-other" :> "deny" @@
     "sessions-create" :> "confirm" @@ "cron-create" :> "deny" @@
     "cron-delete" :> "deny" @@ "cron-list" :> "allow" @@
     "webhook-register" :> "deny" @@ "webhook-delete" :> "deny" @@
     "skill-install" :> "deny" @@ "skill-execute" :> "confirm" @@
     "config-read" :> "allow" @@ "config-write" :> "deny"

Matrix_guest ==
     "bash-unrestricted" :> "deny" @@ "bash-sandboxed" :> "deny" @@
     "bash-read-only" :> "deny" @@ "browser-cdp" :> "deny" @@
     "browser-screenshot" :> "deny" @@ "browser-navigate" :> "deny" @@
     "file-read" :> "deny" @@ "file-write" :> "deny" @@
     "file-delete" :> "deny" @@ "canvas-eval" :> "deny" @@
     "node-invoke" :> "deny" @@ "sessions-send" :> "deny" @@
     "sessions-history-own" :> "deny" @@ "sessions-history-other" :> "deny" @@
     "sessions-create" :> "deny" @@ "cron-create" :> "deny" @@
     "cron-delete" :> "deny" @@ "cron-list" :> "deny" @@
     "webhook-register" :> "deny" @@ "webhook-delete" :> "deny" @@
     "skill-install" :> "deny" @@ "skill-execute" :> "deny" @@
     "config-read" :> "deny" @@ "config-write" :> "deny"

CAPABILITY_MATRIX ==
    "main-elevated" :> Matrix_main_elevated @@
    "main-standard" :> Matrix_main_standard @@
    "sandbox" :> Matrix_sandbox @@
    "webhook" :> Matrix_webhook @@
    "cron" :> Matrix_cron @@
    "api" :> Matrix_api @@
    "guest" :> Matrix_guest

\* mutant: the "deny" case is answered like the "confirm" case
checkCapability_DenyFallsThrough(sessionType, capability) ==
    IF sessionType \notin DOMAIN CAPABILITY_MATRIX
    THEN [allowed |-> FALSE, requiresConfirmation |-> FALSE,
          reason |-> <<"Unknown session type:", sessionType>>]
    ELSE IF capability \notin DOMAIN CAPABILITY_MATRIX[sessionType]
    THEN [allowed |-> FALSE, requiresConfirmation |-> FALSE,
          reason |-> <<"Unknown capability:", capability>>]
    ELSE IF CAPABILITY_MATRIX[sessionType][capability] = "allow"
    THEN [allowed |-> TRUE, requiresConfirmation |-> FALSE,
          reason |-> <<"Capability", capability, "is allowed for", sessionType, "sessions">>]
    ELSE [allowed |-> TRUE, requiresConfirmation |-> TRUE,
          reason |-> <<"Capability", capability, "requires confirmation for", sessionType, "sessions">>]

\* mutant: the "confirm" case does not set requiresConfirmation
checkCapability_ConfirmUnflagged(sessionType, capability) ==
    IF sessionType \notin DOMAIN CAPABILITY_MATRIX
    THEN [allowed |-> FALSE, requiresConfirmation |-> FALSE,
          reason |-> <<"Unknown session type:", sessionType>>]
    ELSE IF capability \notin DOMAIN CAPABILITY_MATRIX[sessionType]
    THEN [allowed |-> FALSE, requiresConfirmation |-> FALSE,
          reason |-> <<"Unknown capability:", capability>>]
    ELSE IF CAPABILITY_MATRIX[sessionType][capability] = "allow"
    THEN [allowed |-> TRUE, requiresConfirmation |-> FALSE,
          reason |-> <<"Capability", capability, "is allowed for", sessionType, "sessions">>]
    ELSE IF CAPABILITY_MATRIX[sessionType][capability] = "confirm"
    THEN [allowed |-> TRUE, requiresConfirmation |-> FALSE,
          reason |-> <<"Capability", capability, "requires confirmation for", sessionType, "sessions">>]
    ELSE [allowed |-> FALSE, requiresConfirmation |-> FALSE,
          reason |-> <<"Capability", capability, "is denied for", sessionType, "sessions">>]

checkCapability(sessionType, capability) ==
    IF sessionType \notin DOMAIN CAPABILITY_MATRIX
    THEN [allowed |-> FALSE, requiresConfirmation |-> FALSE,
          reason |-> <<"Unknown session type:", sessionType>>]
    ELSE IF capability \notin DOMAIN CAPABILITY_MATRIX[sessionType]
    THEN [allowed |-> FALSE, requiresConfirmation |-> FALSE,
          reason |-> <<"Unknown capability:", capability>>]
    ELSE IF CAPABILITY_MATRIX[sessionType][capability] = "allow"
    THEN [allowed |-> TRUE, requiresConfirmation |-> FALSE,
          reason |-> <<"Capability", capability, "is allowed for", sessionType, "sessions">>]
    ELSE IF CAPABILITY_MATRIX[sessionType][capability] = "confirm"
    THEN [allowed |-> TRUE, requiresConfirmation |-> TRUE,
          reason |-> <<"Capability", capability, "requires confirmation for", sessionType, "sessions">>]
    ELSE [allowed |-> FALSE, requiresConfirmation |-> FALSE,
          reason |-> <<"Capability", capability, "is denied for", sessionType, "sessions">>]

----------------------------------------------------------------------------
(* Rate limiter: src/security/tool-policy/rate-limiter.ts *)

\* cfg of the engine's rate limiter: { ...DEFAULT_RATE_LIMITS, ...config }
rateCfg == policyCfg.rateLimits

DayMs == 24 * 60 * 60 * 1000

\* new Date().toISOString().split("T")[0]: the UTC day, as a day number
getCurrentDateString == now \div DayMs

\* mutant: the daily counters are never reset
getUsageRecord_NoDailyReset(usage, sessionId) ==
    IF sessionId \in DOMAIN usage THEN usage
    ELSE MapSet(usage, sessionId,
                [toolCallTimestamps |-> <<>>,
                 cronJobCount |-> 0,
                 webhookCount |-> 0,
                 dailyTokenSpendUSD |-> 0,
                 lastResetDate |-> getCurrentDateString,
                 concurrentExecutions |-> 0])

getUsageRecord(usage, sessionId) ==
    LET today == getCurrentDateString
        created ==
            IF sessionId \in DOMAIN usage THEN usage
            ELSE MapSet(usage, sessionId,
                        [toolCallTimestamps |-> <<>>,
                         cronJobCount |-> 0,
                         webhookCount |-> 0,
                         dailyTokenSpendUSD |-> 0,
                         lastResetDate |-> today,
                         concurrentExecutions |-> 0])
    IN  IF created[sessionId].lastResetDate # today
        THEN [created EXCEPT ![sessionId].dailyTokenSpendUSD = 0,
                             ![sessionId].lastResetDate = today]
        ELSE created

\* a window that also counts the call made exactly windowMs ago
NewerThan_Inclusive(timestamps, cutoff) == SelectSeq(timestamps, LAMBDA ts : ts >= cutoff)

NewerThan(timestamps, cutoff) == SelectSeq(timestamps, LAMBDA ts : ts > cutoff)

cleanupOldTimestamps(record, windowMs) ==
    [record EXCEPT !.toolCallTimestamps = NewerThan(@, now - windowMs)]

RECURSIVE SeqMin(_)
SeqMin(q) ==
    IF Len(q) = 1 THEN q[1]
    ELSE LET m == SeqMin(Tail(q)) IN IF q[1] < m THEN q[1] ELSE m

Max0(x) == IF x > 0 THEN x ELSE 0

\* checkToolCall(sessionId): the usage map it leaves, and either the
\* RateLimitResult it returns or the RateLimitError it throws
checkToolCall(usage, sessionId) ==
    LET usage1 == getUsageRecord(usage, sessionId)
        record == cleanupOldTimestamps(usage1[sessionId], rateCfg.windowSizeMs)
        callsLastMinute == Len(NewerThan(record.toolCallTimestamps, now - 60 * 1000))
        callsLastHour == Len(NewerThan(record.toolCallTimestamps, now - 60 * 60 * 1000))
        oldestInWindow ==
            IF Len(record.toolCallTimestamps) > 0
            THEN SeqMin(record.toolCallTimestamps) ELSE now
        resetInMs == Max0(oldestInWindow + rateCfg.windowSizeMs - now)
        result ==
            [allowed |-> TRUE,
             toolCallsLastHour |-> callsLastHour,
             toolCallsLastMinute |-> callsLastMinute,
             concurrentExecutions |-> record.concurrentExecutions,
             remainingThisHour |-> Max0(rateCfg.maxToolCallsPerHour - callsLastHour),
             remainingThisMinute |-> Max0(rateCfg.maxToolCallsPerMinute - callsLastMinute),
             resetInMs |-> resetInMs]
        error ==
            IF callsLastMinute >= rateCfg.maxToolCallsPerMinute
            THEN [thrown |-> TRUE, message |-> <<"Rate limit exceeded:", callsLastMinute, "/",
                               rateCfg.maxToolCallsPerMinute, "calls per minute">>,
                  type |-> "minute", limit |-> rateCfg.maxToolCallsPerMinute,
                  current |-> callsLastMinute, retryAfterMs |-> 60 * 1000]
            ELSE IF callsLastHour >= rateCfg.maxToolCallsPerHour
            THEN [thrown |-> TRUE, message |-> <<"Rate limit exceeded:", callsLastHour, "/",
                               rateCfg.maxToolCallsPerHour, "calls per hour">>,
                  type |-> "hourly", limit |-> rateCfg.maxToolCallsPerHour,
                  current |-> callsLastHour, retryAfterMs |-> resetInMs]
            ELSE IF record.concurrentExecutions >= rateCfg.maxConcurrentExecutions
            THEN [thrown |-> TRUE, message |-> <<"Too many concurrent executions:", record.concurrentExecutions, "/",
                               rateCfg.maxConcurrentExecutions>>,
                  type |-> "concurrent", limit |-> rateCfg.maxConcurrentExecutions,
                  current |-> record.concurrentExecutions, retryAfterMs |-> 1000]
            ELSE [thrown |-> FALSE]
    IN  [usage |-> [usage1 EXCEPT ![sessionId] = record],
         error |-> error,
         result |-> result]

recordToolCall(usage, sessionId) ==
    [getUsageRecord(usage, sessionId) EXCEPT
        ![sessionId].toolCallTimestamps = Append(@, now)]

startExecution(usage, sessionId) ==
    [getUsageRecord(usage, sessionId) EXCEPT ![sessionId].concurrentExecutions = @ + 1]

endExecution(usage, sessionId) ==
    [getUsageRecord(usage, sessionId) EXCEPT ![sessionId].concurrentExecutions = Max0(@ - 1)]

----------------------------------------------------------------------------
(* Schema validator: security/tool-policy/schema-validator.                *)
(* Parameters are flat records name -> [type, value]; the schemas are the  *)
(* registered COMMON_SCHEMAS the model's tool names use.                   *)

COMMON_SCHEMAS ==
    "bash" :>
        [properties |->
            ("command" :> [type |-> "string", minLength |-> 1, maxLength |-> 10000]
             @@ "timeout" :> [type |-> "number", minimum |-> 0, maximum |-> 600000]
             @@ "workingDir" :> [type |-> "string", minLength |-> 0, maxLength |-> 1000]),
         required |-> {"command"},
         additionalProperties |-> FALSE]

\* the errors validateProperty pushes for one value
validateProperty(v, schema, path) ==
    IF v.type # schema.type
    THEN {"Invalid type at " \o path}
    ELSE IF v.type = "string"
    THEN (IF Len(v.value) < schema.minLength THEN {"String too short at " \o path} ELSE {})
         \cup (IF Len(v.value) > schema.maxLength THEN {"String too long at " \o path} ELSE {})
    ELSE (IF v.value < schema.minimum THEN {"Number too small at " \o path} ELSE {})
         \cup (IF v.value > schema.maximum THEN {"Number too large at " \o path} ELSE {})

validateToolParams(toolName, params, schema) ==
    LET missing == {"Missing required parameter: " \o r :
                        r \in {q \in schema.required : q \notin DOMAIN params}}
        unexpected == {"Unexpected parameter: " \o n :
                        n \in {q \in DOMAIN params :
                                  /\ q \notin DOMAIN schema.properties
                                  /\ schema.additionalProperties = FALSE}}
        invalid == UNION {validateProperty(params[n], schema.properties[n], n) :
                        n \in (DOMAIN params) \cap (DOMAIN schema.properties)}
        errors == missing \cup unexpected \cup invalid
    IN  [valid |-> errors = {}, errors |-> errors]

validateToolCall(toolName, params) ==
    IF toolName \notin DOMAIN COMMON_SCHEMAS
    THEN [valid |-> TRUE, errors |-> {}]
    ELSE validateToolParams(toolName, params, COMMON_SCHEMAS[toolName])

----------------------------------------------------------------------------
(* Destructive-command catalogue and requiresConfirmation:                 *)
(* src/security/tool-policy/confirmation-gate.ts                           *)

DESTRUCTIVE_BASH_PATTERNS ==
    <<[category |-> "destructive", description |-> "File or directory deletion", severity |-> "high"],
     [category |-> "destructive", description |-> "Directory deletion", severity |-> "medium"],
     [category |-> "destructive", description |-> "File unlinking", severity |-> "high"],
     [category |-> "destructive", description |-> "Filesystem creation (disk format)", severity |-> "high"],
     [category |-> "destructive", description |-> "Direct disk write", severity |-> "high"],
     [category |-> "destructive", description |-> "Disk partitioning", severity |-> "high"],
     [category |-> "destructive", description |-> "Destructive git operation", severity |-> "high"],
     [category |-> "destructive", description |-> "Git branch deletion", severity |-> "medium"],
     [category |-> "destructive", description |-> "Database drop operation", severity |-> "high"],
     [category |-> "destructive", description |-> "Database truncation", severity |-> "high"],
     [category |-> "destructive", description |-> "Delete all rows from table", severity |-> "high"],
     [category |-> "security", description |-> "Permission modification", severity |-> "medium"],
     [category |-> "security", description |-> "Ownership modification", severity |-> "medium"],
     [category |-> "privileged", description |-> "Superuser command", severity |-> "high"],
     [category |-> "external", description |-> "HTTP request with data modification", severity |-> "medium"],
     [category |-> "external", description |-> "HTTP POST request", severity |-> "medium"],
     [category |-> "external", description |-> "Package publication", severity |-> "high"],
     [category |-> "configuration", description |-> "User-level package installation", severity |-> "low"],
     [category |-> "configuration", description |-> "Service management", severity |-> "high"],
     [category |-> "destructive", description |-> "Process termination", severity |-> "medium"],
     [category |-> "destructive", description |-> "Multiple process termination", severity |-> "high"],
     [category |-> "configuration", description |-> "System configuration modification", severity |-> "high"],
     [category |-> "configuration", description |-> "Shell configuration modification", severity |-> "medium"]>>

\* pattern.test(command) on the commands of the model: the indices of the
\* catalogue entries whose regular expression matches
MatchingPatterns(command) ==
    IF command \in {"rm -rf /tmp"} THEN {1}
    ELSE IF command = "sudo rm -rf /" THEN {1, 14}
    ELSE IF command = "rmdir build" THEN {2}
    ELSE IF command = "pip install --user requests" THEN {18}
    ELSE {}

checkBashCommandConfirmation(command) ==
    LET hits == MatchingPatterns(command)
    IN  IF hits # {}
        THEN LET first == CHOOSE i \in hits : \A j \in hits : i <= j
             IN  [required |-> TRUE,
                  reason |-> DESTRUCTIVE_BASH_PATTERNS[first].description,
                  category |-> DESTRUCTIVE_BASH_PATTERNS[first].category,
                  severity |-> DESTRUCTIVE_BASH_PATTERNS[first].severity]
        ELSE [required |-> FALSE, reason |-> "No destructive patterns detected",
              category |-> "destructive", severity |-> "low"]

actionPatterns(cfg) ==
    "file-delete" :> [required |-> cfg.requireHighSeverity, reason |-> "File deletion",
                      category |-> "destructive", severity |-> "high"]
    @@ "config-write" :> [required |-> cfg.requireMediumSeverity,
                          reason |-> "Configuration modification",
                          category |-> "configuration", severity |-> "medium"]
    @@ "skill-install" :> [required |-> cfg.requireMediumSeverity,
                           reason |-> "Skill installation",
                           category |-> "security", severity |-> "medium"]
    @@ "cron-create" :> [required |-> cfg.requireLowSeverity,
                         reason |-> "Scheduled job creation",
                         category |-> "configuration", severity |-> "low"]
    @@ "webhook-register" :> [required |-> cfg.requireLowSeverity,
                              reason |-> "Webhook registration",
                              category |-> "external", severity |-> "low"]

requiresConfirmation(g, action, params) ==
    LET cfg == gateCfg[g]
    IN  IF /\ action = "bash"
           /\ "command" \in DOMAIN params
           /\ params["command"].type = "string"
        THEN LET result == checkBashCommandConfirmation(params["command"].value)
             IN  IF ~result.required THEN result
                 ELSE IF result.severity = "high" /\ ~cfg.requireHighSeverity
                 THEN [result EXCEPT !.required = FALSE]
                 ELSE IF result.severity = "medium" /\ ~cfg.requireMediumSeverity
                 THEN [result EXCEPT !.required = FALSE]
                 ELSE IF result.severity = "low" /\ ~cfg.requireLowSeverity
                 THEN [result EXCEPT !.required = FALSE]
                 ELSE result
        ELSE IF action \in DOMAIN actionPatterns(cfg)
        THEN actionPatterns(cfg)[action]
        ELSE [required |-> FALSE, reason |-> "No confirmation required",
              category |-> "configuration", severity |-> "low"]

----------------------------------------------------------------------------
(* Tool policy engine: createToolPolicy in security/tool-policy/index      *)

\* the confirmation gate instance created by createToolPolicy
PolicyGate == 1

\* mutant: what checkToolCall throws is not taken for an Error
instanceofError_Never(error) == FALSE

\* `error instanceof Error` in check's catch clause: RateLimitError, the only
\* class checkToolCall throws, extends Error
instanceofError(error) == error.type \in {"minute", "hourly", "concurrent"}

\* check(sessionId, sessionType, toolName, capability, params): the
\* PolicyCheckResult it returns, or the error it rethrows (thrown), and the
\* usage map its rate limiter is left with
policyCheck(sessionId, sessionType, toolName, capability, params) ==
    LET capResult == checkCapability(sessionType, capability)
        rate == checkToolCall(sessionUsage, sessionId)
        usage1 == IF policyCfg.enableRateLimiting THEN rate.usage ELSE sessionUsage
        rateLimitStatus ==
            IF policyCfg.enableRateLimiting THEN rate.result ELSE [allowed |-> "undefined"]
        validationResult == validateToolCall(toolName, params)
        confirmResult0 == requiresConfirmation(PolicyGate, toolName, params)
        capConfirm == policyCfg.enableCapabilityChecks /\ capResult.requiresConfirmation
        none == [reason |-> "undefined", category |-> "undefined", severity |-> "undefined"]
    IN  IF policyCfg.enableCapabilityChecks /\ ~capResult.allowed
        THEN [usage |-> sessionUsage, thrown |-> FALSE,
              result |-> [allowed |-> FALSE, reason |-> capResult.reason,
                          requiresConfirmation |-> FALSE, confirmationDetails |-> none,
                          validationErrors |-> {},
                          rateLimitStatus |-> [allowed |-> "undefined"]]]
        ELSE IF policyCfg.enableRateLimiting /\ rate.error.thrown /\ ~instanceofError(rate.error)
        THEN [usage |-> usage1, thrown |-> TRUE, result |-> rate.error]
        ELSE IF policyCfg.enableRateLimiting /\ rate.error.thrown
        THEN [usage |-> usage1, thrown |-> FALSE,
              result |-> [allowed |-> FALSE, reason |-> rate.error.message,
                          requiresConfirmation |-> FALSE, confirmationDetails |-> none,
                          validationErrors |-> {},
                          rateLimitStatus |-> [allowed |-> "undefined"]]]
        ELSE IF policyCfg.enableSchemaValidation /\ ~validationResult.valid
        THEN [usage |-> usage1, thrown |-> FALSE,
              result |-> [allowed |-> FALSE, reason |-> <<"Validation failed:", validationResult.errors>>,
                          requiresConfirmation |-> FALSE, confirmationDetails |-> none,
                          validationErrors |-> validationResult.errors,
                          rateLimitStatus |-> rateLimitStatus]]
        ELSE [usage |-> usage1, thrown |-> FALSE,
              result |->
                 [allowed |-> TRUE, reason |-> <<"Policy checks passed">>,
                  requiresConfirmation |->
                      /\ policyCfg.enableConfirmationGates
                      /\ (capConfirm \/ confirmResult0.required),
                  confirmationDetails |->
                      IF ~policyCfg.enableConfirmationGates THEN none
                      ELSE IF confirmResult0.required
                      THEN [reason |-> confirmResult0.reason,
                            category |-> confirmResult0.category,
                            severity |-> confirmResult0.severity]
                      ELSE IF capConfirm
                      THEN [reason |-> capResult.reason, category |-> "privileged",
                            severity |-> "medium"]
                      ELSE none,
                  validationErrors |-> {},
                  rateLimitStatus |-> rateLimitStatus]]

\* mutant: the rate limiter is consulted before the capability layer's
\* verdict is returned
Check_ProbesLimiterFirst(sessionId, sessionType, toolName, capability, params) ==
    LET r == policyCheck(sessionId, sessionType, toolName, capability, params)
    IN  /\ sessionUsage' = checkToolCall(sessionUsage, sessionId).usage
        /\ ret' = [op |-> "check", gate |-> 0, sessionId |-> sessionId, thrown |-> r.thrown,
                   result |-> r.result]
        /\ UNCHANGED <<now, pendingConfirmations, idNonce, requestedVia, confirmCount>>

Check(sessionId, sessionType, toolName, capability, params) ==
    LET r == policyCheck(sessionId, sessionType, toolName, capability, params)
    IN  /\ sessionUsage' = r.usage
        /\ ret' = [op |-> "check", gate |-> 0, sessionId |-> sessionId, thrown |-> r.thrown,
                   result |-> r.result]
        /\ UNCHANGED <<now, pendingConfirmations, idNonce, requestedVia, confirmCount>>

\* number of tool calls recorded per session
MaxCalls == 2

UsageOf(sessionId) == getUsageRecord(sessionUsage, sessionId)[sessionId]

recordExecution(sessionId) ==
    /\ Len(UsageOf(sessionId).toolCallTimestamps) < MaxCalls
    /\ sessionUsage' = IF policyCfg.enableRateLimiting
                       THEN recordToolCall(sessionUsage, sessionId)
                       ELSE sessionUsage
    /\ ret' = [op |-> "recordExecution", gate |-> 0]
    /\ UNCHANGED <<now, pendingConfirmations, idNonce, requestedVia, confirmCount>>

\* getRateLimiter().startExecution(sessionId)
StartExecution(sessionId) ==
    /\ UsageOf(sessionId).concurrentExecutions < rateCfg.maxConcurrentExecutions
    /\ sessionUsage' = startExecution(sessionUsage, sessionId)
    /\ ret' = [op |-> "startExecution", gate |-> 0]
    /\ UNCHANGED <<now, pendingConfirmations, idNonce, requestedVia, confirmCount>>

\* getRateLimiter().endExecution(sessionId)
EndExecution(sessionId) ==
    /\ sessionUsage' = endExecution(sessionUsage, sessionId)
    /\ ret' = [op |-> "endExecution", gate |-> 0]
    /\ UNCHANGED <<now, pendingConfirmations, idNonce, requestedVia, confirmCount>>

----------------------------------------------------------------------------
(* Specification of the tool policy engine: one session calls check,       *)
(* recordExecution and the limiter's start/endExecution, and requests one  *)
(* confirmation through the engine's gate (check itself never reads the    *)
(* pending map).                                                           *)

\* tool names with their parameters: a valid, a destructive and an invalid
\* bash call, and an unregistered tool that is an action of the gate's table
ToolCalls ==
    {<<"bash", [command |-> Str("ls -la")]>>,
     <<"bash", [command |-> Str("rm -rf /tmp")]>>,
     <<"bash", [command |-> Str("")]>>,
     <<"file-delete", [path |-> Str("/tmp/a")]>>}

\* the calls the Check action makes; the claims quantify over all inputs
CheckCalls ==
    {<<"main-standard", "bash", "bash-sandboxed", [command |-> Str("ls -la")]>>,
     <<"guest", "bash", "bash-unrestricted", [command |-> Str("ls -la")]>>,
     <<"main-elevated", "bash", "bash-unrestricted", [command |-> Str("rm -rf /tmp")]>>,
     <<"main-standard", "bash", "bash-unrestricted", [command |-> Str("rm -rf /tmp")]>>,
     <<"main-standard", "bash", "bash-unrestricted", [command |-> Str("")]>>}

\* cfg.rateLimits lowered as in tool-policy.test.ts "check enforces rate
\* limits", so that the recorded calls reach every limit
TestRateLimits ==
    [DEFAULT_RATE_LIMITS EXCEPT !.maxToolCallsPerMinute = 1,
                                !.maxToolCallsPerHour = 2,
                                !.maxConcurrentExecutions = 1]

\* the default flags, and layers disabled ("check can be disabled
\* selectively")
PolicyConfigs ==
    LET base == [DEFAULT_POLICY_CONFIG EXCEPT !.rateLimits = TestRateLimits]
    IN  {base,
         [base EXCEPT !.enableCapabilityChecks = FALSE],
         [base EXCEPT !.enableRateLimiting = FALSE],
         [base EXCEPT !.enableSchemaValidation = FALSE, !.enableConfirmationGates = FALSE]}

\* the sessions that call the engine
PolicySessions == {"s1"}

InitPolicy ==
    /\ InitGateState
    /\ gateCfg \in GateConfigs
    /\ policyCfg \in PolicyConfigs
    /\ sessionUsage = <<>>
    /\ auditCfg = DEFAULT_AUDIT_CONFIG
    /\ InitAuditState
    /\ InitIdle

PolicyOther == UNCHANGED <<gateCfg, policyCfg, auditVars, limiterHist, tokenVars, skillVars, navVars, filterVars>>

NextPolicy ==
    \/ \E s \in PolicySessions, c \in CheckCalls : Check(s, c[1], c[2], c[3], c[4]) /\ PolicyOther
    \/ \E s \in PolicySessions : recordExecution(s) /\ PolicyOther
    \/ \E s \in PolicySessions : StartExecution(s) /\ PolicyOther
    \/ \E s \in PolicySessions : EndExecution(s) /\ PolicyOther
    \/ \E s \in PolicySessions :
          /\ IssuedIds = {}
          /\ requestConfirmation(PolicyGate, s, "bash", [command |-> "rm -rf /tmp"],
                                 "File deletion", "destructive", "high")
          /\ PolicyOther /\ UNCHANGED sessionUsage
    \/ \E id \in IssuedIds, s \in PolicySessions :
          confirm(PolicyGate, id, s) /\ PolicyOther /\ UNCHANGED sessionUsage
    \/ \E id \in IssuedIds : cancel(PolicyGate, id) /\ PolicyOther /\ UNCHANGED sessionUsage
    \/ Tick(TickMs) /\ UNCHANGED <<pendingConfirmations, idNonce, requestedVia, confirmCount,
                                   sessionUsage>>
                    /\ PolicyOther

SpecPolicy == InitPolicy /\ [][NextPolicy]_vars

----------------------------------------------------------------------------
(* Claims about the tool policy engine *)

DeniedPairs ==
    {sc \in SessionTypes \X Capabilities : CAPABILITY_MATRIX[sc[1]][sc[2]] = "deny"}

\* C1 (as claimed): for every session type and capability whose matrix
\* entry is deny, check returns allowed=false in every reachable state of
\* the engine, for every session, tool name and parameters.
C1_DeniedNeverAllowed ==
    \A sc \in DeniedPairs, s \in Sessions, tp \in ToolCalls :
        ~policyCheck(s, sc[1], tp[1], sc[2], tp[2]).result.allowed

\* C1 (amended): the same, for an engine whose capability checks are
\* enabled (enableCapabilityChecks = true, the default).
C1_DeniedNeverAllowedWhenEnabled ==
    policyCfg.enableCapabilityChecks => C1_DeniedNeverAllowed

\* a denied capability was refused while the session had recorded calls up
\* to its limits and a confirmation was pending
C1_Witness ==
    /\ policyCfg.enableCapabilityChecks
    /\ ret.op = "check"
    /\ ~ret.result.allowed
    /\ ret.result.reason = <<"Capability", "bash-unrestricted", "is denied for", "guest", "sessions">>
    /\ ret.sessionId \in DOMAIN sessionUsage
    /\ Len(sessionUsage[ret.sessionId].toolCallTimestamps) = MaxCalls
    /\ pendingConfirmations # <<>>

----------------------------------------------------------------------------
(* Structured audit event: src/security/audit-logger/structured-event.ts   *)

\* number of events logged
MaxEvents == 3

\* SHA-256 as a collision-free function: the digest determines its input
sha256(data) == <<"sha256", data>>

\* An object is the list of its <<key, value>> entries in insertion order;
\* a value is a tagged number or string, or a tagged object.
Obj(entries) == [type |-> "object", value |-> entries]

\* Object.keys(object), in insertion order
ObjectKeys(entries) == [i \in DOMAIN entries |-> entries[i][1]]

\* object[key]
ObjectGet(entries, key) == entries[CHOOSE i \in DOMAIN entries : entries[i][1] = key][2]

\* the key names of the model in the order of Array.prototype.toSorted
KeyOrder == <<"a", "b", "command", "x", "y">>

\* keys.toSorted()
toSorted(keys) == SelectSeq(KeyOrder, LAMBDA k : \E i \in DOMAIN keys : keys[i] = k)

\* JSON.stringify(value, propertyList): an array as replacer is the list of
\* the property names that are serialised, in this order, for the object
\* and for every object nested in it
RECURSIVE stringify(_, _)
stringify(value, propertyList) ==
    IF value.type = "object"
    THEN LET present == SelectSeq(propertyList,
                            LAMBDA k : \E i \in DOMAIN value.value : value.value[i][1] = k)
         IN  <<"{", [i \in DOMAIN present |->
                       <<present[i], stringify(ObjectGet(value.value, present[i]), propertyList)>>],
               "}">>
    ELSE <<value.type, value.value>>

\* args is the list of entries of the arguments object, empty for
\* undefined as for {}
hashArgs(args) ==
    IF args = <<>> THEN sha256(<<"{}">>)
    ELSE sha256(stringify(Obj(args), toSorted(ObjectKeys(args))))

\* narrower hash, used to see that the chain depends on what is hashed
hashEvent_OmitsIdAndLink(event) ==
    sha256(<<event.timestamp, event.sessionId, event.channel, event.toolName,
             event.argsHash, event.outcome>>)

\* the payload is the list of the joined fields
hashEvent(event) ==
    sha256(<<event.timestamp, event.eventId, event.sessionId, event.channel,
             event.toolName, event.argsHash, event.outcome,
             IF event.previousHash = Undefined THEN EmptyString ELSE event.previousHash>>)

\* t is new Date(), uuid is randomUUID(); userId, metadata, durationMs and
\* errorMessage are copied through and left out here
createAuditEvent(params, t, uuid) ==
    [timestamp |-> t,
     eventId |-> uuid,
     sessionId |-> params.sessionId,
     channel |-> params.channel,
     toolName |-> params.toolName,
     argsHash |-> hashArgs(IF "args" \in DOMAIN params THEN params.args ELSE <<>>),
     outcome |-> params.outcome,
     severity |-> IF "severity" \in DOMAIN params THEN params.severity
                  ELSE IF params.outcome = "error" THEN "error" ELSE "info",
     previousHash |-> params.previousHash]

----------------------------------------------------------------------------
(* Hash chain: src/security/audit-logger/hash-chain.ts                     *)

getLastHash == lastHash

\* append that forgets to advance the chain head
append_KeepsLastHash(event) ==
    LET linked == [event EXCEPT !.previousHash = lastHash]
    IN  [event |-> linked, eventHash |-> hashEvent(linked),
         lastHash |-> lastHash, chainLength |-> chainLength + 1]

\* append that records the hash of the event as it was before it was linked
append_HashesUnlinked(event) ==
    LET linked == [event EXCEPT !.previousHash = lastHash]
        eventHash == hashEvent([event EXCEPT !.previousHash = Undefined])
    IN  [event |-> linked, eventHash |-> eventHash,
         lastHash |-> eventHash, chainLength |-> chainLength + 1]

\* the event with its link set, its hash, and the chain's new state
append(event) ==
    LET linked == [event EXCEPT !.previousHash = lastHash]
        eventHash == hashEvent(linked)
    IN  [event |-> linked, eventHash |-> eventHash,
         lastHash |-> eventHash, chainLength |-> chainLength + 1]

RECURSIVE verifyFrom(_, _, _)
verifyFrom(evs, i, previousHash) ==
    IF i > Len(evs) THEN [valid |-> TRUE, eventsVerified |-> Len(evs), brokenAtIndex |-> -1]
    ELSE IF evs[i].previousHash # previousHash
         THEN [valid |-> FALSE, eventsVerified |-> i - 1, brokenAtIndex |-> i - 1]
         ELSE verifyFrom(evs, i + 1, hashEvent(evs[i]))

\* verify whose loop stops one event early
verify_SkipsLastLink(evs) ==
    IF Len(evs) = 0 THEN [valid |-> TRUE, eventsVerified |-> 0, brokenAtIndex |-> -1]
    ELSE LET r == verifyFrom(SubSeq(evs, 1, Len(evs) - 1), 2, hashEvent(evs[1]))
         IN  IF r.valid THEN [r EXCEPT !.eventsVerified = Len(evs)] ELSE r

\* indices are 1-based here; brokenAtIndex is reported 0-based as in the code
verify(evs) ==
    IF Len(evs) = 0 THEN [valid |-> TRUE, eventsVerified |-> 0, brokenAtIndex |-> -1]
    ELSE verifyFrom(evs, 2, hashEvent(evs[1]))

----------------------------------------------------------------------------
(* Shippers: src/security/audit-logger/external-shipper.ts                 *)
(* The inner shipper is any LogShipper: a call of inner.ship stays pending *)
(* until it resolves or rejects.  A member of inFlight is one flushBuffer  *)
(* invocation (or one direct ship call): the head of its batch is the      *)
(* event whose inner.ship is pending, the tail is what it has yet to ship. *)

\* flushBuffer up to its first pending await, for the caller named by origin
flushBuffer(buf, origin, caller) ==
    IF Len(buf) = 0
    THEN [buffer |-> buf, started |-> {}, delivered |-> delivered]
    ELSE [buffer |-> <<>>,
          started |-> {[batch |-> buf, origin |-> origin, caller |-> caller]},
          delivered |-> Append(delivered, Head(buf))]

\* createBufferedShipper(inner, config).ship
bufferedShip(eventId) ==
    LET pushed == Append(buffer, eventId)
    IN  IF Len(pushed) >= auditCfg.batchSize
        THEN flushBuffer(pushed, "ship", eventId)
        ELSE [buffer |-> pushed, started |-> {}, delivered |-> delivered]

\* shipper.ship(event) of the logger's shipper, up to its first pending await
ship(eventId) ==
    IF auditCfg.buffered
    THEN bufferedShip(eventId)
    ELSE [buffer |-> buffer,
          started |-> {[batch |-> <<eventId>>, origin |-> "log", caller |-> eventId]},
          delivered |-> Append(delivered, eventId)]

\* who receives the rejection of a flushBuffer started by origin: ship, flush
\* and close await it, the timer callback discards its promise
rejectionReceiver(origin) ==
    CASE origin \in {"log", "ship"} -> "log"
      [] origin = "flush" -> "flush"
      [] origin = "close" -> "close"
      [] origin = "timer" -> "unhandledRejection"

----------------------------------------------------------------------------
(* Audit logger: src/security/audit-logger/index.ts                        *)

\* log that catches the shipper's error
logOutcome_SwallowsShipError(shipOutcome) == "resolved"

\* log after `await shipper.ship(event)`: returns the event id, or rejects
logOutcome(shipOutcome) == shipOutcome

\* log up to its first pending await, called while callable holds
logCall(params, callable) ==
    IF ~auditCfg.enabled
    THEN /\ ret' = [op |-> "log", gate |-> 0]
         /\ UNCHANGED <<now, lastHash, chainLength, events, uuidNonce, buffer, timer, inFlight,
                        delivered, innerClosed, logCalls, closeCall, shipErrors,
                        acceptedAtClose>>
    ELSE LET uuid == uuidNonce + 1
             event == createAuditEvent(
                          MapSet(params, "previousHash",
                                 IF auditCfg.hashChain THEN getLastHash ELSE Undefined),
                          now, uuid)
             a == IF auditCfg.hashChain
                  THEN append(event)
                  ELSE [event |-> event, eventHash |-> hashEvent(event),
                        lastHash |-> lastHash, chainLength |-> chainLength]
             s == ship(uuid)
         IN  /\ uuidNonce < MaxEvents
             /\ callable
             /\ uuidNonce' = uuid
             /\ lastHash' = a.lastHash
             /\ chainLength' = a.chainLength
             /\ events' = Append(events, [event |-> a.event, hash |-> a.eventHash])
             /\ buffer' = s.buffer
             /\ inFlight' = inFlight \cup s.started
             /\ delivered' = s.delivered
             /\ logCalls' = MapSet(logCalls, uuid,
                                   IF s.started = {} THEN logOutcome("resolved")
                                   ELSE "pending")
             /\ ret' = [op |-> "log", gate |-> 0]
             /\ UNCHANGED <<now, timer, innerClosed, closeCall, shipErrors, acceptedAtClose>>

\* logger.log before close() is called
Log(params) == logCall(params, closeCall = "none")

\* logger.log once close() has returned: neither the logger nor the buffered
\* shipper keeps a closed flag, so the event is accepted as before
LogAfterClose(params) ==
    /\ auditCfg.enabled
    /\ auditCfg.buffered
    /\ logCall(params, closeCall = "closed")

\* the interval callback of the buffered shipper: void flushBuffer()
TimerFlush ==
    LET f == flushBuffer(buffer, "timer", 0)
    IN  /\ auditCfg.buffered
        /\ timer
        /\ buffer' = f.buffer
        /\ inFlight' = inFlight \cup f.started
        /\ delivered' = f.delivered
        /\ ret' = [op |-> "timer", gate |-> 0]
        /\ UNCHANGED <<now, lastHash, chainLength, events, uuidNonce, timer, innerClosed,
                       logCalls, closeCall, shipErrors, acceptedAtClose>>

\* logger.flush(): shipper.flush() of the buffered shipper
Flush ==
    LET f == flushBuffer(buffer, "flush", 0)
    IN  /\ auditCfg.buffered
        /\ closeCall = "none"
        /\ buffer' = f.buffer
        /\ inFlight' = inFlight \cup f.started
        /\ delivered' = f.delivered
        /\ ret' = [op |-> "flush", gate |-> 0]
        /\ UNCHANGED <<now, lastHash, chainLength, events, uuidNonce, timer, innerClosed,
                       logCalls, closeCall, shipErrors, acceptedAtClose>>

\* logger.close(): shipper.close() up to its first pending await; an
\* unbuffered shipper is closed at once
Close ==
    LET f == flushBuffer(buffer, "close", 0)
    IN  /\ auditCfg.enabled
        /\ closeCall = "none"
        /\ acceptedAtClose' = {events[i].event.eventId : i \in DOMAIN events}
        /\ IF auditCfg.buffered
           THEN /\ timer' = FALSE
                /\ buffer' = f.buffer
                /\ inFlight' = inFlight \cup f.started
                /\ delivered' = f.delivered
                /\ closeCall' = IF f.started = {} THEN "flushed" ELSE "flushing"
                /\ UNCHANGED innerClosed
           ELSE /\ closeCall' = "closed"
                /\ innerClosed' = TRUE
                /\ UNCHANGED <<timer, buffer, inFlight, delivered>>
        /\ ret' = [op |-> "close", gate |-> 0]
        /\ UNCHANGED <<now, lastHash, chainLength, events, uuidNonce, logCalls, shipErrors>>

\* close() of the buffered shipper after `await flushBuffer()`: inner.close()
CloseInner ==
    /\ closeCall = "flushed"
    /\ innerClosed' = TRUE
    /\ closeCall' = "closed"
    /\ ret' = [op |-> "close", gate |-> 0]
    /\ UNCHANGED <<now, lastHash, chainLength, events, uuidNonce, buffer, timer, inFlight,
                   delivered, logCalls, shipErrors, acceptedAtClose>>

\* the promise of the flushBuffer f settles: its awaiter continues
Settle(f, outcome) ==
    /\ logCalls' = IF f.origin \in {"log", "ship"}
                   THEN [logCalls EXCEPT ![f.caller] = logOutcome(outcome)]
                   ELSE logCalls
    /\ closeCall' = IF f.origin = "close"
                    THEN (IF outcome = "resolved" THEN "flushed" ELSE "rejected")
                    ELSE closeCall

\* the pending inner.ship of f resolves: the for loop of flushBuffer goes on
InnerShipResolve(f) ==
    LET rest == Tail(f.batch)
    IN  /\ f \in inFlight
        /\ IF Len(rest) > 0
           THEN /\ inFlight' = (inFlight \ {f}) \cup {[f EXCEPT !.batch = rest]}
                /\ delivered' = Append(delivered, Head(rest))
                /\ UNCHANGED <<logCalls, closeCall>>
           ELSE /\ inFlight' = inFlight \ {f}
                /\ Settle(f, "resolved")
                /\ UNCHANGED delivered
        /\ ret' = [op |-> "shipped", gate |-> 0]
        /\ UNCHANGED <<now, lastHash, chainLength, events, uuidNonce, buffer, timer,
                       innerClosed, shipErrors, acceptedAtClose>>

\* the pending inner.ship of f rejects: the for loop of flushBuffer is left
\* by the exception
InnerShipReject(f) ==
    /\ f \in inFlight
    /\ inFlight' = inFlight \ {f}
    /\ Settle(f, "rejected")
    /\ shipErrors' = shipErrors \cup
           {[event |-> Head(f.batch), origin |-> f.origin, caller |-> f.caller,
             receivedBy |-> rejectionReceiver(f.origin)]}
    /\ ret' = [op |-> "shipFailed", gate |-> 0]
    /\ UNCHANGED <<now, lastHash, chainLength, events, uuidNonce, buffer, timer, delivered,
                   innerClosed, acceptedAtClose>>

\* events.map((e) => e.event)
EventList == [i \in DOMAIN events |-> events[i].event]

\* logger.verifyChain()
VerifyChain ==
    /\ ret' = [op |-> "verifyChain", gate |-> 0, result |-> verify(EventList)]
    /\ UNCHANGED <<now, lastHash, chainLength, events, uuidNonce, buffer, timer, inFlight,
                   delivered, innerClosed, logCalls, closeCall, shipErrors, acceptedAtClose>>

----------------------------------------------------------------------------
(* Specification of the audit logger; the clock stands still, so that     *)
(* events logged with equal parameters differ in their eventId only       *)

LogParams ==
    {[sessionId |-> "s1", channel |-> "main", toolName |-> "bash",
      args |-> << <<"command", Str("ls")>> >>, outcome |-> "success"],
     [sessionId |-> "s1", channel |-> "security", toolName |-> "bash",
      outcome |-> "blocked", severity |-> "warning"]}

AuditConfigs ==
    {DEFAULT_AUDIT_CONFIG,
     [DEFAULT_AUDIT_CONFIG EXCEPT !.hashChain = FALSE],
     [DEFAULT_AUDIT_CONFIG EXCEPT !.enabled = FALSE],
     [DEFAULT_AUDIT_CONFIG EXCEPT !.buffered = TRUE, !.batchSize = 2,
                                  !.flushIntervalMs = 5000]}

InitAudit ==
    /\ InitGateState
    /\ gateCfg \in GateConfigs
    /\ policyCfg = DEFAULT_POLICY_CONFIG
    /\ sessionUsage = <<>>
    /\ auditCfg \in AuditConfigs
    /\ InitAuditState
    /\ InitIdle

AuditOther ==
    UNCHANGED <<pendingConfirmations, gateCfg, idNonce, requestedVia, confirmCount,
                policyCfg, sessionUsage, auditCfg, limiterHist, tokenVars, skillVars, navVars, filterVars>>

NextAudit ==
    \/ \E params \in LogParams : Log(params) /\ AuditOther
    \/ TimerFlush /\ AuditOther
    \/ Flush /\ AuditOther
    \/ Close /\ AuditOther
    \/ CloseInner /\ AuditOther
    \/ \E f \in inFlight : InnerShipResolve(f) /\ AuditOther
    \/ \E f \in inFlight : InnerShipReject(f) /\ AuditOther
    \/ VerifyChain /\ AuditOther

SpecAudit == InitAudit /\ [][NextAudit]_vars

----------------------------------------------------------------------------
(* Claims about the audit logger *)

Range(q) == {q[i] : i \in DOMAIN q}

\* position in the chain of the event with this id
IndexInChain(eventId) == CHOOSE i \in DOMAIN events : events[i].event.eventId = eventId

\* C5: with hash chaining enabled, after any sequence of log calls every
\* recorded event but the first carries as previousHash the hash of the
\* event recorded before it.
C5_ChainLinked ==
    auditCfg.hashChain =>
        \A i \in 2..Len(events) :
            events[i].event.previousHash = hashEvent(events[i - 1].event)

\* a chain of three events with different parameters
C5_Witness ==
    /\ auditCfg.hashChain
    /\ Len(events) >= 3
    /\ events[2].event.outcome # events[3].event.outcome
    /\ events[3].event.previousHash = events[2].hash

\* C6: log calls that overlap in time produce a totally ordered chain: no
\* two events carry the same previousHash, the recorded list verifies as a
\* chain, and the chain head is the hash of the last recorded event.
C6_TotallyOrderedChain ==
    auditCfg.hashChain =>
        /\ \A i, j \in DOMAIN events :
               i # j => events[i].event.previousHash # events[j].event.previousHash
        /\ verify([i \in DOMAIN events |-> events[i].event]).valid
        /\ chainLength = Len(events)
        /\ lastHash = IF Len(events) = 0 THEN Undefined ELSE events[Len(events)].hash

\* three log calls are pending at once, each awaiting its ship call
C6_Witness ==
    /\ auditCfg.hashChain
    /\ Len(events) >= 3
    /\ \A id \in 1..3 : logCalls[id] = "pending"

\* C7 (as claimed): events reach the inner shipper in chain order.
C7_DeliveryOrderIsChainOrder ==
    \A i, j \in DOMAIN delivered :
        i < j => IndexInChain(delivered[i]) < IndexInChain(delivered[j])

\* C8: when the ship operation a log call awaits fails, that log call
\* rejects, its event and the event the shipper failed on stay in the
\* recorded list, and the chain stays valid and in order with later events
\* linked to the failing one.
C8_ShipFailurePropagates ==
    \A err \in shipErrors :
        err.receivedBy = "log" =>
            /\ logCalls[err.caller] = "rejected"
            /\ \A id \in {err.caller, err.event} :
                   /\ \E i \in DOMAIN events : events[i].event.eventId = id
                   /\ IndexInChain(id) = id
                   /\ (auditCfg.hashChain /\ id < Len(events)) =>
                          events[id + 1].event.previousHash = events[id].hash
            /\ auditCfg.hashChain => verify([i \in DOMAIN events |-> events[i].event]).valid

\* a log call was rejected by its shipper and a log call made after that
\* added the next event of the chain
C8_Witness ==
    /\ auditCfg.hashChain
    /\ ret.op = "log"
    /\ \E err \in shipErrors :
           /\ err.receivedBy = "log"
           /\ logCalls[err.caller] = "rejected"
           /\ err.caller < Len(events)

\* C9 (as claimed): in the buffered shipper events fail individually, so
\* every accepted event is still buffered, held by a running flush, or has
\* been handed to the inner shipper.
C9_EventsFailIndividually ==
    auditCfg.buffered =>
        \A i \in DOMAIN events :
            LET id == events[i].event.eventId
            IN  \/ id \in Range(buffer)
                \/ id \in Range(delivered)
                \/ \E f \in inFlight : id \in Range(f.batch)

\* C10 (as claimed): once close() of the buffered shipper has closed the
\* inner shipper, every event accepted before the close call has been
\* handed to the inner shipper (no delivery having failed).
C10_CloseDrainsBuffer ==
    (auditCfg.buffered /\ innerClosed /\ shipErrors = {}) =>
        \A id \in acceptedAtClose : id \in Range(delivered)

----------------------------------------------------------------------------
(* Claims about chain verification *)

VerifiedAll(k) == [valid |-> TRUE, eventsVerified |-> k, brokenAtIndex |-> -1]

\* C11 (as claimed): after k events have been produced by the logger,
\* verifyChain returns valid=true, eventsVerified=k, brokenAtIndex=-1.
C11_VerifyChainValid ==
    verify(EventList) = VerifiedAll(Len(events))

\* C11 (amended): the same, for a logger with hash chaining enabled.
C11_VerifyChainValidWhenChained ==
    auditCfg.hashChain => C11_VerifyChainValid

\* verifyChain was called on a chain of three events and on the empty list
C11_Witness ==
    /\ auditCfg.hashChain
    /\ ret.op = "verifyChain"
    /\ Len(events) = 3
    /\ ret.result = VerifiedAll(3)
    /\ verify(<<>>) = VerifiedAll(0)

\* values an attacker may write into previousHash
TamperedHashes ==
    {<<"tampered-hash">>, Undefined, EmptyString} \cup {events[j].hash : j \in DOMAIN events}

\* events[i].previousHash = v, with i counted from 1
TamperLink(evs, i, v) == [evs EXCEPT ![i].previousHash = v]

\* C12: in a chain produced by the logger, writing a different value into
\* previousHash of one event at 0-based index i > 0 makes verifyChain
\* return valid=false with brokenAtIndex=i.
C12_TamperedLinkDetected ==
    auditCfg.hashChain =>
        \A i \in 2..Len(events) :
            \A v \in TamperedHashes \ {events[i].event.previousHash} :
                LET r == verify(TamperLink(EventList, i, v))
                IN  ~r.valid /\ r.brokenAtIndex = i - 1 /\ r.eventsVerified = i - 1

\* a chain of three events in which the link of the last and of the middle
\* event can be overwritten
C12_Witness ==
    /\ auditCfg.hashChain
    /\ Len(events) = 3
    /\ verify(TamperLink(EventList, 2, <<"tampered-hash">>)).brokenAtIndex = 1
    /\ verify(TamperLink(EventList, 3, events[1].hash)).brokenAtIndex = 2

HashedFields ==
    {"timestamp", "eventId", "sessionId", "channel", "toolName", "argsHash", "outcome",
     "previousHash"}

\* a value of the field's type that differs from the one the logger wrote
Altered(event, field) ==
    CASE field = "timestamp" -> event.timestamp + 1
      [] field = "eventId" -> event.eventId + MaxEvents + 1
      [] field = "argsHash" -> sha256(<<"tampered">>)
      [] field = "previousHash" -> <<"tampered-hash">>
      [] OTHER -> "tampered"

AlterField(evs, i, field) ==
    [evs EXCEPT ![i] = MapSet(evs[i], field, Altered(evs[i], field))]

\* evs.splice(i - 1, 1)
RemoveAt(evs, i) == SubSeq(evs, 1, i - 1) \o SubSeq(evs, i + 1, Len(evs))

\* C13 (as claimed): altering any hashed field of any event of a chain
\* produced by the logger, or removing any event, makes verifyChain return
\* valid=false.
C13_TamperingAndDeletionDetected ==
    auditCfg.hashChain =>
        \A i \in DOMAIN events :
            /\ \A field \in HashedFields : ~verify(AlterField(EventList, i, field)).valid
            /\ ~verify(RemoveAt(EventList, i)).valid

----------------------------------------------------------------------------
(* Rate limiter used directly: request handlers of one session check a     *)
(* tool call, run the tool, and record the call.  The tool runs between    *)
(* the two calls, so other handlers' calls are interleaved there.          *)

\* the clock step of the limiter specification: half the minute window
LimiterTickMs == 30 * 1000

LimiterTick ==
    /\ now < MaxTicks * LimiterTickMs
    /\ now' = now + LimiterTickMs
    /\ ret' = [op |-> "tick", gate |-> 0]
    /\ UNCHANGED <<pendingConfirmations, idNonce, requestedVia, confirmCount,
                   sessionUsage, limiterHist>>

\* limiter.checkToolCall(sessionId) by a handler; an allowed check leaves the
\* handler with a call to record
CheckToolCall(sessionId) ==
    LET r == checkToolCall(sessionUsage, sessionId)
    IN  /\ r.error.thrown \/ Len(checkedAt[sessionId]) <= MaxCalls
        /\ sessionUsage' = r.usage
        /\ ret' = [op |-> "checkToolCall", gate |-> 0, sessionId |-> sessionId,
                   error |-> r.error, result |-> r.result]
        /\ IF r.error.thrown
           THEN UNCHANGED limiterHist
           ELSE /\ checkedAt' = [checkedAt EXCEPT ![sessionId] = Append(@, now)]
                /\ permits' = [permits EXCEPT ![sessionId] = @ + 1]
                /\ overlapped' = IF permits[sessionId] > 0
                                 THEN overlapped \cup {sessionId} ELSE overlapped
                /\ UNCHANGED spent
        /\ UNCHANGED <<now, pendingConfirmations, idNonce, requestedVia, confirmCount>>

\* limiter.recordToolCall(sessionId) by a handler whose check was allowed
RecordToolCall(sessionId) ==
    /\ permits[sessionId] > 0
    /\ sessionUsage' = recordToolCall(sessionUsage, sessionId)
    /\ permits' = [permits EXCEPT ![sessionId] = @ - 1]
    /\ ret' = [op |-> "recordToolCall", gate |-> 0, sessionId |-> sessionId]
    /\ UNCHANGED <<now, pendingConfirmations, idNonce, requestedVia, confirmCount,
                   checkedAt, overlapped, spent>>

\* the limits of tool-policy.test.ts lowered so that each is reached: the
\* minute limit below, at and above the hourly one
LimiterConfigs ==
    {[DEFAULT_POLICY_CONFIG EXCEPT !.rateLimits =
        [DEFAULT_RATE_LIMITS EXCEPT !.maxToolCallsPerMinute = l[1],
                                    !.maxToolCallsPerHour = l[2],
                                    !.maxConcurrentExecutions = 1]] :
     l \in {<<1, 2>>, <<2, 2>>, <<2, 1>>}}

LimiterSessions == {"s1"}

InitLimiter ==
    /\ InitGateState
    /\ gateCfg \in GateConfigs
    /\ policyCfg \in LimiterConfigs
    /\ sessionUsage = <<>>
    /\ auditCfg = DEFAULT_AUDIT_CONFIG
    /\ InitAuditState
    /\ InitIdle

LimiterOther == UNCHANGED <<gateCfg, policyCfg, auditVars, tokenVars, skillVars, navVars, filterVars>>

NextLimiter ==
    \/ \E s \in LimiterSessions : CheckToolCall(s) /\ LimiterOther
    \/ \E s \in LimiterSessions : RecordToolCall(s) /\ LimiterOther
    \/ \E s \in LimiterSessions : StartExecution(s) /\ LimiterOther /\ UNCHANGED limiterHist
    \/ \E s \in LimiterSessions : EndExecution(s) /\ LimiterOther /\ UNCHANGED limiterHist
    \/ LimiterTick /\ LimiterOther

SpecLimiter == InitLimiter /\ [][NextLimiter]_vars

----------------------------------------------------------------------------
(* Claims about the rate limiter's tool-call limits *)

\* the calls a session has recorded, resp. the checks it was allowed, in the
\* window that ends now
RecordedWithin(sessionId, windowMs) ==
    IF sessionId \in DOMAIN sessionUsage
    THEN Cardinality({i \in DOMAIN sessionUsage[sessionId].toolCallTimestamps :
                        sessionUsage[sessionId].toolCallTimestamps[i] > now - windowMs})
    ELSE 0

AllowedWithin(sessionId, windowMs) ==
    Cardinality({i \in DOMAIN checkedAt[sessionId] : checkedAt[sessionId][i] > now - windowMs})

ExecutionsOf(sessionId) ==
    IF sessionId \in DOMAIN sessionUsage
    THEN sessionUsage[sessionId].concurrentExecutions ELSE 0

\* C14 as stated: of the check_tool_call calls of a session within 60 s, the
\* first L succeed and the next one throws, so at most L checks are allowed
\* within any 60 s
C14_ChecksAloneAreLimited ==
    \A s \in Sessions : AllowedWithin(s, 60 * 1000) <= rateCfg.maxToolCallsPerMinute

\* C14 (amended): when every allowed check of a session is followed by its
\* record_tool_call before the next check, a check made while fewer than L
\* calls are recorded in the last 60 s succeeds (the hourly and the
\* concurrency limit permitting), and a check made when L are recorded
\* throws RateLimitExceeded with kind=minute, limit=L and current=L
C14_MinuteLimitOnRecordedCalls ==
    [][\A s \in Sessions :
          (ret'.op = "checkToolCall" /\ ret'.sessionId = s
             /\ permits[s] = 0 /\ s \notin overlapped)
          => LET L == rateCfg.maxToolCallsPerMinute
                 c == RecordedWithin(s, 60 * 1000)
                 h == RecordedWithin(s, 60 * 60 * 1000)
             IN  /\ (c < L /\ h < rateCfg.maxToolCallsPerHour
                       /\ ExecutionsOf(s) < rateCfg.maxConcurrentExecutions)
                    => (~ret'.error.thrown /\ ret'.result.allowed)
                 /\ c >= L
                    => /\ ret'.error.thrown
                       /\ ret'.error.type = "minute"
                       /\ ret'.error.limit = L
                       /\ ret'.error.current = L]_vars

\* the (L+1)-th check after L recorded calls within 60 s throws the minute
\* error, after L allowed checks each followed by its record
C14_Witness ==
    /\ ret.op = "checkToolCall"
    /\ "s1" \notin overlapped
    /\ permits["s1"] = 0
    /\ rateCfg.maxToolCallsPerMinute = 2
    /\ Len(checkedAt["s1"]) = 2
    /\ RecordedWithin("s1", 60 * 1000) = 2
    /\ ret.error.thrown
    /\ ret.error.type = "minute"
    /\ ret.error.limit = 2
    /\ ret.error.current = 2

\* C15: the calls a session was admitted (checked, then recorded) within a
\* minute never exceed max_tool_calls_per_minute, and within an hour never
\* exceed max_tool_calls_per_hour
C15_AdmittedCallsWithinLimits ==
    \A s \in Sessions :
        /\ RecordedWithin(s, 60 * 1000) <= rateCfg.maxToolCallsPerMinute
        /\ RecordedWithin(s, 60 * 60 * 1000) <= rateCfg.maxToolCallsPerHour

----------------------------------------------------------------------------
(* Rate limiter: quotas, spend, usage and reset (rate-limiter.ts 301-415) *)

QuotaExceededError(message, resource, limit, current) ==
    [thrown |-> TRUE, message |-> message, resource |-> resource, limit |-> limit,
     current |-> current]

checkCronJob(usage, sessionId) ==
    LET usage1 == getUsageRecord(usage, sessionId)
        record == usage1[sessionId]
    IN  [usage |-> usage1,
         error |-> IF record.cronJobCount >= rateCfg.maxCronJobsPerSession
                   THEN QuotaExceededError(<<"Cron job quota exceeded:", record.cronJobCount, "/",
                                             rateCfg.maxCronJobsPerSession>>,
                                           "cron", rateCfg.maxCronJobsPerSession, record.cronJobCount)
                   ELSE [thrown |-> FALSE]]

recordCronJobCreated(usage, sessionId) ==
    [getUsageRecord(usage, sessionId) EXCEPT ![sessionId].cronJobCount = @ + 1]

recordCronJobDeleted(usage, sessionId) ==
    [getUsageRecord(usage, sessionId) EXCEPT ![sessionId].cronJobCount = Max0(@ - 1)]

checkWebhook(usage, sessionId) ==
    LET usage1 == getUsageRecord(usage, sessionId)
        record == usage1[sessionId]
    IN  [usage |-> usage1,
         error |-> IF record.webhookCount >= rateCfg.maxWebhooksPerSession
                   THEN QuotaExceededError(<<"Webhook quota exceeded:", record.webhookCount, "/",
                                             rateCfg.maxWebhooksPerSession>>,
                                           "webhook", rateCfg.maxWebhooksPerSession, record.webhookCount)
                   ELSE [thrown |-> FALSE]]

recordWebhookCreated(usage, sessionId) ==
    [getUsageRecord(usage, sessionId) EXCEPT ![sessionId].webhookCount = @ + 1]

recordWebhookDeleted(usage, sessionId) ==
    [getUsageRecord(usage, sessionId) EXCEPT ![sessionId].webhookCount = Max0(@ - 1)]

\* costs are whole dollars
checkTokenBudget(usage, sessionId, costUSD) ==
    LET usage1 == getUsageRecord(usage, sessionId)
        record == usage1[sessionId]
    IN  [usage |-> usage1,
         error |-> IF record.dailyTokenSpendUSD + costUSD > rateCfg.maxDailyTokenBudgetUSD
                   THEN QuotaExceededError(<<"Daily token budget exceeded:", record.dailyTokenSpendUSD,
                                             "+", costUSD, ">", rateCfg.maxDailyTokenBudgetUSD>>,
                                           "budget", rateCfg.maxDailyTokenBudgetUSD,
                                           record.dailyTokenSpendUSD)
                   ELSE [thrown |-> FALSE]]

recordTokenSpend(usage, sessionId, costUSD) ==
    [getUsageRecord(usage, sessionId) EXCEPT ![sessionId].dailyTokenSpendUSD = @ + costUSD]

getUsage(usage, sessionId) ==
    LET usage1 == getUsageRecord(usage, sessionId)
        record == cleanupOldTimestamps(usage1[sessionId], rateCfg.windowSizeMs)
    IN  [usage |-> [usage1 EXCEPT ![sessionId] = record],
         result |-> [toolCallsLastHour |->
                         Len(NewerThan(record.toolCallTimestamps, now - 60 * 60 * 1000)),
                     toolCallsLastMinute |->
                         Len(NewerThan(record.toolCallTimestamps, now - 60 * 1000)),
                     cronJobs |-> record.cronJobCount,
                     webhooks |-> record.webhookCount,
                     dailySpendUSD |-> record.dailyTokenSpendUSD,
                     concurrentExecutions |-> record.concurrentExecutions]]

\* a reset that clears the whole map
resetUsage_ClearsMap(usage, sessionId) == <<>>

resetUsage(usage, sessionId) == MapDelete(usage, sessionId)

\* an operation that leaves the clock, the gate and the call history alone
LimiterOp(op, sessionId, usage, outcome) ==
    /\ sessionUsage' = usage
    /\ ret' = [op |-> op, gate |-> 0, sessionId |-> sessionId, outcome |-> outcome]
    /\ UNCHANGED <<now, pendingConfirmations, idNonce, requestedVia, confirmCount, limiterHist>>

CheckCronJob(s) ==
    LET r == checkCronJob(sessionUsage, s) IN LimiterOp("checkCronJob", s, r.usage, r.error)

RecordCronJobCreated(s) ==
    /\ UsageOf(s).cronJobCount < rateCfg.maxCronJobsPerSession
    /\ LimiterOp("recordCronJobCreated", s, recordCronJobCreated(sessionUsage, s), Undefined)

RecordCronJobDeleted(s) ==
    LimiterOp("recordCronJobDeleted", s, recordCronJobDeleted(sessionUsage, s), Undefined)

CheckWebhook(s) ==
    LET r == checkWebhook(sessionUsage, s) IN LimiterOp("checkWebhook", s, r.usage, r.error)

RecordWebhookCreated(s) ==
    /\ UsageOf(s).webhookCount < rateCfg.maxWebhooksPerSession
    /\ LimiterOp("recordWebhookCreated", s, recordWebhookCreated(sessionUsage, s), Undefined)

RecordWebhookDeleted(s) ==
    LimiterOp("recordWebhookDeleted", s, recordWebhookDeleted(sessionUsage, s), Undefined)

CheckTokenBudget(s, costUSD) ==
    LET r == checkTokenBudget(sessionUsage, s, costUSD)
    IN  LimiterOp("checkTokenBudget", s, r.usage, r.error)

RecordTokenSpend(s, costUSD) ==
    /\ UsageOf(s).dailyTokenSpendUSD + costUSD <= rateCfg.maxDailyTokenBudgetUSD
    /\ sessionUsage' = recordTokenSpend(sessionUsage, s, costUSD)
    /\ spent' = [spent EXCEPT ![s] = Append(@, <<getCurrentDateString, costUSD>>)]
    /\ ret' = [op |-> "recordTokenSpend", gate |-> 0, sessionId |-> s, outcome |-> Undefined]
    /\ UNCHANGED <<now, pendingConfirmations, idNonce, requestedVia, confirmCount,
                   checkedAt, permits, overlapped>>

GetUsage(s) ==
    LET r == getUsage(sessionUsage, s) IN LimiterOp("getUsage", s, r.usage, r.result)

ResetUsage(s) ==
    /\ sessionUsage' = resetUsage(sessionUsage, s)
    /\ spent' = [spent EXCEPT ![s] = <<>>]
    /\ ret' = [op |-> "resetUsage", gate |-> 0, sessionId |-> s, outcome |-> Undefined]
    /\ UNCHANGED <<now, pendingConfirmations, idNonce, requestedVia, confirmCount,
                   checkedAt, permits, overlapped>>

\* checkToolCall and recordToolCall as tool-policy.test.ts calls them: records
\* need no earlier check
ProbeToolCall(s) ==
    LET r == checkToolCall(sessionUsage, s)
    IN  LimiterOp("checkToolCall", s, r.usage, r.error)

NoteToolCall(s) ==
    /\ Len(UsageOf(s).toolCallTimestamps) < rateCfg.maxToolCallsPerHour
    /\ LimiterOp("recordToolCall", s, recordToolCall(sessionUsage, s), Undefined)

----------------------------------------------------------------------------
(* Specification of one limiter used by two sessions *)

\* every limit lowered to one, so that each session reaches each of them
QuotaRateLimits ==
    [DEFAULT_RATE_LIMITS EXCEPT !.maxToolCallsPerMinute = 1,
                                !.maxToolCallsPerHour = 1,
                                !.maxCronJobsPerSession = 1,
                                !.maxWebhooksPerSession = 1,
                                !.maxDailyTokenBudgetUSD = 1,
                                !.maxConcurrentExecutions = 1]

CostsUSD == {1}

InitQuota ==
    /\ InitGateState
    /\ gateCfg \in GateConfigs
    /\ policyCfg = [DEFAULT_POLICY_CONFIG EXCEPT !.rateLimits = QuotaRateLimits]
    /\ sessionUsage = <<>>
    /\ auditCfg = DEFAULT_AUDIT_CONFIG
    /\ InitAuditState
    /\ InitIdle

NextQuota ==
    \/ \E s \in Sessions : ProbeToolCall(s) /\ LimiterOther
    \/ \E s \in Sessions : NoteToolCall(s) /\ LimiterOther
    \/ \E s \in Sessions : StartExecution(s) /\ LimiterOther /\ UNCHANGED limiterHist
    \/ \E s \in Sessions : EndExecution(s) /\ LimiterOther /\ UNCHANGED limiterHist
    \/ \E s \in Sessions : CheckCronJob(s) /\ LimiterOther
    \/ \E s \in Sessions : RecordCronJobCreated(s) /\ LimiterOther
    \/ \E s \in Sessions : RecordCronJobDeleted(s) /\ LimiterOther
    \/ \E s \in Sessions : CheckWebhook(s) /\ LimiterOther
    \/ \E s \in Sessions : RecordWebhookCreated(s) /\ LimiterOther
    \/ \E s \in Sessions : RecordWebhookDeleted(s) /\ LimiterOther
    \/ \E s \in Sessions, c \in CostsUSD : CheckTokenBudget(s, c) /\ LimiterOther
    \/ \E s \in Sessions, c \in CostsUSD : RecordTokenSpend(s, c) /\ LimiterOther
    \/ \E s \in Sessions : GetUsage(s) /\ LimiterOther
    \/ \E s \in Sessions : ResetUsage(s) /\ LimiterOther

SpecQuota == InitQuota /\ [][NextQuota]_vars

----------------------------------------------------------------------------
(* Claims about the sessions of one limiter *)

\* what a session can observe of a usage map: the outcome of each check and
\* its usage counts
Observed(usage, sessionId) ==
    [toolCall |-> LET r == checkToolCall(usage, sessionId) IN <<r.error, r.result>>,
     cronJob |-> checkCronJob(usage, sessionId).error,
     webhook |-> checkWebhook(usage, sessionId).error,
     budget |-> [c \in CostsUSD |-> checkTokenBudget(usage, sessionId, c).error],
     counts |-> getUsage(usage, sessionId).result]

----------------------------------------------------------------------------
(* Session token store: src/security/session-security/token-store.ts.      *)
(* The store is the pair of maps tokens (hash -> metadata) and userTokens  *)
(* (user -> set of hashes); sessionType and data are opaque and left out.  *)

HourMs == 60 * 60 * 1000

TokenError(message, code) == [thrown |-> TRUE, message |-> message, code |-> code]

\* a store keyed by the raw token
hashToken_KeepsRaw(token) == <<token>>

hashToken(token) == sha256(<<token>>)

Min(a, b) == IF a < b THEN a ELSE b

\* a metadata.expiresAt that only counts as expired once the clock is past it
Expired_AfterDeadline(metadata) == metadata.expiresAt < now

\* metadata.expiresAt <= now
Expired(metadata) == metadata.expiresAt <= now

\* a string or undefined used as a condition
Truthy(v) == v # Undefined /\ v # EmptyString

tokenCleanup(st) ==
    LET expired == {h \in DOMAIN st.tokens : Expired(st.tokens[h])}
        touched == {st.tokens[h].userId : h \in expired} \cap DOMAIN st.userTokens
        emptied == {u \in touched : st.userTokens[u] \ expired = {}}
    IN  [tokens |-> MapDeleteAll(st.tokens, expired),
         userTokens |-> [u \in (DOMAIN st.userTokens) \ emptied |->
                            IF u \in touched THEN st.userTokens[u] \ expired
                            ELSE st.userTokens[u]]]

\* create(userId, options) with rawToken the value randomBytes() yields
create(st, userId, options, rawToken) ==
    LET c == tokenCleanup(st)
        userSet == IF userId \in DOMAIN c.userTokens THEN c.userTokens[userId] ELSE {}
        ttlHours == Min(IF "ttlHours" \in DOMAIN options THEN options.ttlHours
                        ELSE tokenCfg.defaultTtlHours,
                        tokenCfg.maxTtlHours)
        tokenHash == hashToken(rawToken)
        metadata == [userId |-> userId,
                     createdAt |-> now,
                     expiresAt |-> now + ttlHours * HourMs,
                     clientIp |-> IF "clientIp" \in DOMAIN options THEN options.clientIp
                                  ELSE Undefined]
    IN  IF Cardinality(userSet) >= tokenCfg.maxTokensPerUser
        THEN [st |-> c,
              error |-> TokenError(<<"Maximum tokens per user exceeded:", Cardinality(userSet),
                                     "/", tokenCfg.maxTokensPerUser>>, "MAX_TOKENS_EXCEEDED"),
              token |-> Undefined,
              metadata |-> Undefined]
        ELSE [st |-> [tokens |-> MapSet(c.tokens, tokenHash, metadata),
                      userTokens |-> MapSet(c.userTokens, userId, userSet \cup {tokenHash})],
              error |-> [thrown |-> FALSE],
              token |-> rawToken,
              metadata |-> metadata]

\* an IP check that ignores cfg.bindToClientIp
IpMismatch_AlwaysBound(metadata, clientIp) ==
    Truthy(metadata.clientIp) /\ Truthy(clientIp) /\ metadata.clientIp # clientIp

IpMismatch(metadata, clientIp) ==
    /\ tokenCfg.bindToClientIp
    /\ Truthy(metadata.clientIp)
    /\ Truthy(clientIp)
    /\ metadata.clientIp # clientIp

validate(st, token, clientIp) ==
    LET tokenHash == hashToken(token)
    IN  IF tokenHash \notin DOMAIN st.tokens
        THEN [st |-> st,
              result |-> [valid |-> FALSE,
                          reason |-> <<"Token not found or already invalidated">>]]
        ELSE LET metadata == st.tokens[tokenHash]
             IN  IF Expired(metadata)
                 THEN [st |-> [tokens |-> MapDelete(st.tokens, tokenHash),
                               userTokens |->
                                   IF metadata.userId \in DOMAIN st.userTokens
                                   THEN [st.userTokens EXCEPT ![metadata.userId] = @ \ {tokenHash}]
                                   ELSE st.userTokens],
                       result |-> [valid |-> FALSE, reason |-> <<"Token expired">>]]
                 ELSE IF IpMismatch(metadata, clientIp)
                 THEN [st |-> st,
                       result |-> [valid |-> FALSE, reason |-> <<"Token bound to different IP">>]]
                 ELSE [st |-> st, result |-> [valid |-> TRUE, metadata |-> metadata]]

\* mutant: invalidate leaves the hash in the user's set
invalidate_KeepsIndex(st, token) ==
    LET tokenHash == hashToken(token)
    IN  IF tokenHash \notin DOMAIN st.tokens
        THEN [st |-> st, result |-> FALSE]
        ELSE [st |-> [tokens |-> MapDelete(st.tokens, tokenHash),
                      userTokens |-> st.userTokens],
              result |-> TRUE]

invalidate(st, token) ==
    LET tokenHash == hashToken(token)
    IN  IF tokenHash \notin DOMAIN st.tokens
        THEN [st |-> st, result |-> FALSE]
        ELSE LET metadata == st.tokens[tokenHash]
                 u == metadata.userId
             IN  [st |-> [tokens |-> MapDelete(st.tokens, tokenHash),
                          userTokens |->
                              IF u \notin DOMAIN st.userTokens THEN st.userTokens
                              ELSE IF st.userTokens[u] \ {tokenHash} = {}
                              THEN MapDelete(st.userTokens, u)
                              ELSE [st.userTokens EXCEPT ![u] = @ \ {tokenHash}]],
                  result |-> TRUE]

\* an invalidateAll that empties the store
invalidateAll_EmptiesStore(st, userId) ==
    IF userId \notin DOMAIN st.userTokens
    THEN [st |-> st, result |-> 0]
    ELSE [st |-> [tokens |-> <<>>, userTokens |-> <<>>],
          result |-> Cardinality(st.userTokens[userId])]

invalidateAll(st, userId) ==
    IF userId \notin DOMAIN st.userTokens
    THEN [st |-> st, result |-> 0]
    ELSE [st |-> [tokens |-> MapDeleteAll(st.tokens, st.userTokens[userId]),
                  userTokens |-> MapDelete(st.userTokens, userId)],
          result |-> Cardinality(st.userTokens[userId])]

getActiveTokenCount(st, userId) ==
    LET c == tokenCleanup(st)
    IN  [st |-> c,
         result |-> IF userId \in DOMAIN c.userTokens
                    THEN Cardinality(c.userTokens[userId]) ELSE 0]

getTotalActiveTokens(st) ==
    LET c == tokenCleanup(st)
    IN  [st |-> c, result |-> Cardinality(DOMAIN c.tokens)]

----------------------------------------------------------------------------
(* Operations of one token store *)

\* raw tokens ever issued
MaxTokens == 2

Store == [tokens |-> tokens, userTokens |-> userTokens]

\* the store an operation leaves and what it returns; the clock and the
\* configuration stay
TokenOp(st, result) ==
    /\ tokens' = st.tokens
    /\ userTokens' = st.userTokens
    /\ ret' = result
    /\ UNCHANGED <<now, tokenCfg>>

Create(userId, options) ==
    LET rawToken == tokenNonce + 1
        r == create(Store, userId, options, rawToken)
    IN  /\ r.error.thrown \/ tokenNonce < MaxTokens
        /\ TokenOp(r.st, [op |-> "create", gate |-> 0, userId |-> userId,
                          error |-> r.error, token |-> r.token])
        /\ IF r.error.thrown
           THEN UNCHANGED <<tokenNonce, issued>>
           ELSE /\ tokenNonce' = rawToken
                /\ issued' = MapSet(issued, rawToken, r.metadata)
        /\ UNCHANGED revoked

Validate(token, clientIp) ==
    LET r == validate(Store, token, clientIp)
    IN  /\ TokenOp(r.st, [op |-> "validate", gate |-> 0, token |-> token,
                          clientIp |-> clientIp, result |-> r.result])
        /\ UNCHANGED <<tokenNonce, issued, revoked>>

Invalidate(token) ==
    LET r == invalidate(Store, token)
    IN  /\ TokenOp(r.st, [op |-> "invalidate", gate |-> 0, token |-> token,
                          result |-> r.result])
        /\ revoked' = IF r.result THEN revoked \cup {token} ELSE revoked
        /\ UNCHANGED <<tokenNonce, issued>>

InvalidateAll(userId) ==
    LET r == invalidateAll(Store, userId)
    IN  /\ TokenOp(r.st, [op |-> "invalidateAll", gate |-> 0, userId |-> userId,
                          result |-> r.result])
        /\ revoked' = revoked \cup {t \in DOMAIN issued :
                                      /\ hashToken(t) \in DOMAIN tokens
                                      /\ hashToken(t) \notin DOMAIN r.st.tokens}
        /\ UNCHANGED <<tokenNonce, issued>>

Cleanup ==
    /\ TokenOp(tokenCleanup(Store), [op |-> "cleanup", gate |-> 0])
    /\ UNCHANGED <<tokenNonce, issued, revoked>>

GetActiveTokenCount(userId) ==
    LET r == getActiveTokenCount(Store, userId)
    IN  /\ TokenOp(r.st, [op |-> "getActiveTokenCount", gate |-> 0, userId |-> userId,
                          result |-> r.result])
        /\ UNCHANGED <<tokenNonce, issued, revoked>>

GetTotalActiveTokens ==
    LET r == getTotalActiveTokens(Store)
    IN  /\ TokenOp(r.st, [op |-> "getTotalActiveTokens", gate |-> 0, result |-> r.result])
        /\ UNCHANGED <<tokenNonce, issued, revoked>>

\* Date.now() advances by an hour, to the expiry of a default token made at 0
TokenTick ==
    /\ now < tokenCfg.defaultTtlHours * HourMs
    /\ now' = now + HourMs
    /\ ret' = [op |-> "tick", gate |-> 0]
    /\ UNCHANGED tokenVars

----------------------------------------------------------------------------
(* Specification of the token store *)

Users == {"u1", "u2"}

\* no options (the default TTL), and a TTL above the maximum with a client IP
CreateOptions ==
    {<<>>, [ttlHours |-> 3, clientIp |-> <<"10.0.0.1">>]}

ClientIps == {Undefined, <<"10.0.0.1">>, <<"10.0.0.2">>}

\* a token no create returned
UnknownToken == 0

\* short TTLs and a small cap, without and with IP binding
TokenConfigs ==
    {[DEFAULT_TOKEN_STORE_CONFIG EXCEPT !.maxTtlHours = 2, !.defaultTtlHours = 1,
                                        !.maxTokensPerUser = 1, !.bindToClientIp = b] :
     b \in BOOLEAN}

InitTokens ==
    /\ InitGateState
    /\ gateCfg \in GateConfigs
    /\ policyCfg = DEFAULT_POLICY_CONFIG
    /\ sessionUsage = <<>>
    /\ auditCfg = DEFAULT_AUDIT_CONFIG
    /\ InitAuditState
    /\ InitLimiterHist
    /\ tokenCfg \in TokenConfigs
    /\ InitTokenState
    /\ InitNavState
    /\ InitFilterState
    /\ InitSkillState

TokenOther ==
    UNCHANGED <<pendingConfirmations, gateCfg, idNonce, requestedVia, confirmCount,
                policyCfg, sessionUsage, auditVars, limiterHist, skillVars, navVars, filterVars>>

NextTokens ==
    \/ \E u \in Users, o \in CreateOptions : Create(u, o) /\ TokenOther
    \/ \E t \in DOMAIN issued \cup {UnknownToken}, ip \in ClientIps : Validate(t, ip) /\ TokenOther
    \/ \E t \in DOMAIN issued \cup {UnknownToken} : Invalidate(t) /\ TokenOther
    \/ \E u \in Users : InvalidateAll(u) /\ TokenOther
    \/ Cleanup /\ TokenOther
    \/ \E u \in Users : GetActiveTokenCount(u) /\ TokenOther
    \/ GetTotalActiveTokens /\ TokenOther
    \/ TokenTick /\ TokenOther

SpecTokens == InitTokens /\ [][NextTokens]_vars

----------------------------------------------------------------------------
(* Claims about the token store *)

\* the stored tokens of a user that are not expired at time t
NonExpired(tk, t, userId) ==
    {h \in DOMAIN tk : tk[h].userId = userId /\ tk[h].expiresAt > t}

\* C17: a user never owns more than max_tokens_per_user non-expired tokens;
\* create(u) throws the token error MAX_TOKENS_EXCEEDED exactly when u
\* already owns max_tokens_per_user non-expired tokens (expired ones do not
\* count), and otherwise succeeds and leaves u within the cap
C17_PerUserCap ==
    [][/\ \A u \in Users :
             Cardinality(NonExpired(tokens', now', u)) <= tokenCfg.maxTokensPerUser
       /\ ret'.op = "create"
          => LET owned == Cardinality(NonExpired(tokens, now, ret'.userId))
             IN  /\ ret'.error.thrown <=> owned >= tokenCfg.maxTokensPerUser
                 /\ ret'.error.thrown => ret'.error.code = "MAX_TOKENS_EXCEEDED"
                 /\ ~ret'.error.thrown
                    => /\ hashToken(ret'.token) \in NonExpired(tokens', now, ret'.userId)
                       /\ hashToken(ret'.token) \notin DOMAIN tokens]_vars

\* a create that succeeds for a user whose only token has expired, and then
\* one that is rejected at the cap
C17_Witness ==
    /\ ret.op = "create"
    /\ ret.userId = "u1"
    /\ ret.error.thrown
    /\ ret.error.code = "MAX_TOKENS_EXCEEDED"
    /\ Cardinality({t \in DOMAIN issued : issued[t].userId = "u1"}) = 2
    /\ Cardinality(NonExpired(tokens, now, "u1")) = 1
    /\ \E t \in DOMAIN issued : issued[t].userId = "u1" /\ issued[t].expiresAt <= now

\* a token is live when it was issued, not removed by invalidate or
\* invalidateAll, and the clock is before its expiresAt
Live(token) ==
    /\ token \in DOMAIN issued
    /\ token \notin revoked
    /\ now < issued[token].expiresAt

\* C18 as stated: validate returns valid=true exactly for the tokens that are
\* issued, not invalidated and not expired
C18_ValidUntilExpiryOrInvalidation ==
    ret.op = "validate" => (ret.result.valid <=> Live(ret.token))

\* C18 (amended): validate returns valid=true exactly for the tokens that are
\* issued, not invalidated, not expired and not presented from another IP
\* than the one they are bound to; invalidation and expiry are permanent
C18_ValidUnlessIpMismatch ==
    [][/\ ret'.op = "validate"
          => (ret'.result.valid
                <=> /\ Live(ret'.token)
                    /\ ~(/\ tokenCfg.bindToClientIp
                         /\ issued[ret'.token].clientIp # Undefined
                         /\ ret'.clientIp # Undefined
                         /\ issued[ret'.token].clientIp # ret'.clientIp))
       /\ revoked \subseteq revoked'
       /\ now' >= now
       /\ \A t \in DOMAIN issued : t \in DOMAIN issued' /\ issued'[t] = issued[t]]_vars

\* a bound token validated from its own IP, after another token was
\* invalidated and a third has expired
C18_Witness ==
    /\ ret.op = "validate"
    /\ ret.result.valid
    /\ tokenCfg.bindToClientIp
    /\ ret.clientIp = <<"10.0.0.1">>
    /\ issued[ret.token].clientIp = <<"10.0.0.1">>
    /\ now > issued[ret.token].createdAt
    /\ revoked # {}
    /\ \A t \in revoked : ~validate(Store, t, Undefined).result.valid

\* C19: invalidate_all(u) removes every token of u and returns their number;
\* afterwards each of them fails validation and u's count is zero, and the
\* entries, the validation results and the counts of every other user are
\* as before
C19_InvalidateAllOnlyOwnTokens ==
    [][ret'.op = "invalidateAll"
       => LET u == ret'.userId
              before == Store
              after == [tokens |-> tokens', userTokens |-> userTokens']
          IN  /\ ret'.result = Cardinality({h \in DOMAIN tokens : tokens[h].userId = u})
              /\ getActiveTokenCount(after, u).result = 0
              /\ \A t \in DOMAIN issued :
                    IF issued[t].userId = u
                    THEN /\ hashToken(t) \notin DOMAIN tokens'
                         /\ \A ip \in ClientIps : ~validate(after, t, ip).result.valid
                    ELSE /\ hashToken(t) \in DOMAIN tokens' <=> hashToken(t) \in DOMAIN tokens
                         /\ hashToken(t) \in DOMAIN tokens
                            => tokens'[hashToken(t)] = tokens[hashToken(t)]
                         /\ \A ip \in ClientIps :
                               validate(after, t, ip).result = validate(before, t, ip).result
              /\ \A v \in Users \ {u} :
                    /\ getActiveTokenCount(after, v).result = getActiveTokenCount(before, v).result
                    /\ (v \in DOMAIN userTokens') = (v \in DOMAIN userTokens)
                    /\ v \in DOMAIN userTokens => userTokens'[v] = userTokens[v]]_vars

\* invalidateAll("u1") removed a token while u2's token stays valid
C19_Witness ==
    /\ ret.op = "invalidateAll"
    /\ ret.userId = "u1"
    /\ ret.result = 1
    /\ \E t \in DOMAIN issued :
          /\ issued[t].userId = "u1"
          /\ t \in revoked
          /\ ~validate(Store, t, Undefined).result.valid
    /\ \E t \in DOMAIN issued :
          /\ issued[t].userId = "u2"
          /\ validate(Store, t, Undefined).result.valid
    /\ getActiveTokenCount(Store, "u2").result = 1

\* C20: when create, validate or a counting query has returned, the store
\* holds no entry whose expires_at has passed
C20_NoExpiredEntryAfterCall ==
    ret.op \in {"create", "validate", "getActiveTokenCount", "getTotalActiveTokens"}
    => \A h \in DOMAIN tokens : ~(tokens[h].expiresAt <= now)

\* the reasons validate gives for valid=false
InvalidReasons ==
    {<<"Token not found or already invalidated">>, <<"Token expired">>,
     <<"Token bound to different IP">>}

\* C21: the raw token is returned by create only, and each one once: the
\* store's keys are SHA-256 digests of issued tokens and its values the
\* metadata create was given; validate returns a reason or a stored
\* metadata, invalidate a boolean, invalidate_all and the counting queries a
\* number of entries
C21_RawTokenOnlyFromCreate ==
    [][/\ \A h \in DOMAIN tokens' :
             \E t \in DOMAIN issued' : h = sha256(<<t>>) /\ tokens'[h] = issued'[t]
       /\ \A u \in DOMAIN userTokens' :
             userTokens'[u] \subseteq {sha256(<<t>>) : t \in DOMAIN issued'}
       /\ \A t \in DOMAIN issued' :
             DOMAIN issued'[t] = {"userId", "createdAt", "expiresAt", "clientIp"}
       /\ (ret'.op = "create" /\ ~ret'.error.thrown)
          => ret'.token \notin DOMAIN issued /\ ret'.token \in DOMAIN issued'
       /\ (ret'.op = "create" /\ ret'.error.thrown) => ret'.token = Undefined
       /\ ret'.op = "validate"
          => ret'.result \in {[valid |-> FALSE, reason |-> r] : r \in InvalidReasons}
                             \cup {[valid |-> TRUE, metadata |-> tokens[h]] : h \in DOMAIN tokens}
       /\ ret'.op = "invalidate" => ret'.result \in BOOLEAN
       /\ ret'.op \in {"invalidateAll", "getActiveTokenCount", "getTotalActiveTokens"}
          => ret'.result \in 0..Cardinality(DOMAIN tokens)]_vars

\* a second token was created and the first one still validates
C21_Witness ==
    /\ ret.op = "validate"
    /\ ret.result.valid
    /\ ret.token = 1
    /\ DOMAIN issued = {1, 2}
    /\ DOMAIN tokens = {sha256(<<1>>), sha256(<<2>>)}

----------------------------------------------------------------------------
(* Skill approval gate: src/security/skill-gate/approval-flow.ts.  An       *)
(* ApprovalRecord's optional fields (decidedAt, decidedBy, reason) are      *)
(* absent from the record until they are set; of a request only the        *)
(* skillId matters.                                                        *)

SkillInstallationError(message, skillId, code) ==
    [thrown |-> TRUE, message |-> message, skillId |-> skillId, code |-> code]

NotThrown == [thrown |-> FALSE]

\* a cleanup that leaves old pending records pending
cleanupExpired_KeepsStale(ap) == ap

cleanupExpired(ap) ==
    [key \in DOMAIN ap |->
        IF ap[key].status = "pending"
           /\ now - ap[key].requestedAt > skillCfg.approvalExpirationMs
        THEN [ap[key] EXCEPT !.status = "expired"]
        ELSE ap[key]]

\* a decision recorded on record; an undefined reason stays absent
Decided(record, status, decidedBy, reason) ==
    LET base == [request |-> record.request,
                 status |-> status,
                 requestedAt |-> record.requestedAt,
                 decidedAt |-> now,
                 decidedBy |-> decidedBy]
    IN  IF reason = Undefined THEN base ELSE base @@ [reason |-> reason]

requestApproval(ap, request) ==
    LET cleaned == cleanupExpired(ap)
        pendingCount == Cardinality({k \in DOMAIN cleaned : cleaned[k].status = "pending"})
        auto == [request |-> request,
                 status |-> "approved",
                 requestedAt |-> now,
                 decidedAt |-> now,
                 reason |-> <<"Auto-install enabled">>]
        record == [request |-> request, status |-> "pending", requestedAt |-> now]
    IN  IF skillCfg.autoInstall
        THEN [approvals |-> MapSet(cleaned, request.skillId, auto),
              error |-> NotThrown, result |-> auto]
        ELSE IF pendingCount >= skillCfg.maxPendingApprovals
        THEN [approvals |-> cleaned,
              error |-> SkillInstallationError(
                            <<"Too many pending approvals:", pendingCount, "/",
                              skillCfg.maxPendingApprovals>>,
                            request.skillId, "MAX_PENDING_EXCEEDED"),
              result |-> Undefined]
        ELSE [approvals |-> MapSet(cleaned, request.skillId, record),
              error |-> NotThrown, result |-> record]

approve(ap, skillId, approvedBy, reason) ==
    IF skillId \notin DOMAIN ap
    THEN [approvals |-> ap,
          error |-> SkillInstallationError(<<"No approval request found for skill:", skillId>>,
                                           skillId, "NOT_FOUND"),
          result |-> Undefined]
    ELSE IF ap[skillId].status # "pending"
    THEN [approvals |-> ap,
          error |-> SkillInstallationError(<<"Approval request is not pending:",
                                             ap[skillId].status>>,
                                           skillId, "INVALID_STATUS"),
          result |-> Undefined]
    ELSE LET record == Decided(ap[skillId], "approved", approvedBy, reason)
         IN  [approvals |-> MapSet(ap, skillId, record), error |-> NotThrown,
              result |-> record]

deny(ap, skillId, deniedBy, reason) ==
    IF skillId \notin DOMAIN ap
    THEN [approvals |-> ap,
          error |-> SkillInstallationError(<<"No approval request found for skill:", skillId>>,
                                           skillId, "NOT_FOUND"),
          result |-> Undefined]
    ELSE LET record == Decided(ap[skillId], "denied", deniedBy, reason)
         IN  [approvals |-> MapSet(ap, skillId, record), error |-> NotThrown,
              result |-> record]

isApproved(ap, skillId) ==
    LET cleaned == cleanupExpired(ap)
    IN  [approvals |-> cleaned,
         result |-> skillId \in DOMAIN cleaned /\ cleaned[skillId].status = "approved"]

\* the pending records, as a set (the array is in the map's insertion order)
getPendingApprovals(ap) ==
    LET cleaned == cleanupExpired(ap)
    IN  [approvals |-> cleaned,
         result |-> {cleaned[k] : k \in {j \in DOMAIN cleaned : cleaned[j].status = "pending"}}]

getApprovalStatus(ap, skillId) ==
    LET cleaned == cleanupExpired(ap)
    IN  [approvals |-> cleaned,
         result |-> IF skillId \in DOMAIN cleaned THEN <<cleaned[skillId]>> ELSE Undefined]

----------------------------------------------------------------------------
(* Operations of one skill gate *)

SkillOp(op, skillId, r) ==
    /\ approvals' = r.approvals
    /\ ret' = [op |-> op, gate |-> 0, skillId |-> skillId,
               error |-> IF "error" \in DOMAIN r THEN r.error ELSE NotThrown,
               result |-> r.result]
    /\ UNCHANGED <<now, skillCfg>>

RequestApproval(skillId) ==
    SkillOp("requestApproval", skillId, requestApproval(approvals, [skillId |-> skillId]))

Approve(skillId, approvedBy, reason) ==
    SkillOp("approve", skillId, approve(approvals, skillId, approvedBy, reason))

Deny(skillId, deniedBy, reason) ==
    SkillOp("deny", skillId, deny(approvals, skillId, deniedBy, reason))

IsApproved(skillId) ==
    SkillOp("isApproved", skillId, isApproved(approvals, skillId))

GetPendingApprovals ==
    SkillOp("getPendingApprovals", Undefined, getPendingApprovals(approvals))

GetApprovalStatus(skillId) ==
    SkillOp("getApprovalStatus", skillId, getApprovalStatus(approvals, skillId))

SkillTick ==
    /\ Tick(TickMs)
    /\ UNCHANGED skillVars

----------------------------------------------------------------------------
(* Specification of the skill gate *)

SkillIds == {"skill-1", "skill-2"}

Deciders == {"admin"}

DecisionReasons == {Undefined, <<"Suspicious">>}

\* the expiration shortened to one clock step and the pending limit to one,
\* with and without auto-install
SkillConfigs ==
    {[DEFAULT_SKILL_GATE_CONFIG EXCEPT !.approvalExpirationMs = TickMs,
                                       !.maxPendingApprovals = 1,
                                       !.autoInstall = a] : a \in BOOLEAN}

InitSkill ==
    /\ InitGateState
    /\ gateCfg \in GateConfigs
    /\ policyCfg = DEFAULT_POLICY_CONFIG
    /\ sessionUsage = <<>>
    /\ auditCfg = DEFAULT_AUDIT_CONFIG
    /\ InitAuditState
    /\ InitLimiterHist
    /\ tokenCfg = DEFAULT_TOKEN_STORE_CONFIG
    /\ InitTokenState
    /\ InitNavState
    /\ InitFilterState
    /\ skillCfg \in SkillConfigs
    /\ approvals = <<>>

SkillOther ==
    UNCHANGED <<pendingConfirmations, gateCfg, idNonce, requestedVia, confirmCount,
                policyCfg, sessionUsage, auditVars, limiterHist, tokenVars, navVars, filterVars>>

NextSkill ==
    \/ \E id \in SkillIds : RequestApproval(id) /\ SkillOther
    \/ \E id \in SkillIds, by \in Deciders, why \in DecisionReasons :
          Approve(id, by, why) /\ SkillOther
    \/ \E id \in SkillIds, by \in Deciders, why \in DecisionReasons :
          Deny(id, by, why) /\ SkillOther
    \/ \E id \in SkillIds : IsApproved(id) /\ SkillOther
    \/ GetPendingApprovals /\ SkillOther
    \/ \E id \in SkillIds : GetApprovalStatus(id) /\ SkillOther
    \/ SkillTick /\ SkillOther

SpecSkill == InitSkill /\ [][NextSkill]_vars

----------------------------------------------------------------------------
(* Claims about the skill gate *)

\* a pending record whose age exceeds approvalExpirationMs
Stale(skillId) ==
    /\ skillId \in DOMAIN approvals
    /\ approvals[skillId].status = "pending"
    /\ now - approvals[skillId].requestedAt > skillCfg.approvalExpirationMs

\* the records that count as pending now
PendingNow == {k \in DOMAIN approvals : approvals[k].status = "pending" /\ ~Stale(k)}

\* C22: the status recorded for a skill id changes only from pending, and
\* then to approved, denied or expired
C22_OnlyPendingChanges ==
    [][\A id \in DOMAIN approvals :
          /\ id \in DOMAIN approvals'
          /\ approvals'[id].status # approvals[id].status
             => /\ approvals[id].status = "pending"
                /\ approvals'[id].status \in {"approved", "denied", "expired"}]_vars

\* C23: approve and deny change a record only when it is pending; on an
\* approved, denied or expired record they throw INVALID_STATUS and leave
\* every record as it was, and on an unknown id they throw NOT_FOUND
C23_DecisionsOnlyOnPending ==
    [][ret'.op \in {"approve", "deny"}
       => LET id == ret'.skillId
          IN  IF id \notin DOMAIN approvals
              THEN /\ ret'.error.thrown
                   /\ ret'.error.code = "NOT_FOUND"
                   /\ approvals' = approvals
              ELSE IF approvals[id].status # "pending"
              THEN /\ ret'.error.thrown
                   /\ ret'.error.code = "INVALID_STATUS"
                   /\ approvals' = approvals
              ELSE /\ ~ret'.error.thrown
                   /\ approvals'[id].status
                        = (IF ret'.op = "approve" THEN "approved" ELSE "denied")]_vars

\* C24: an operation that touches a pending record older than
\* approvalExpirationMs finds it expired: approve and deny throw
\* INVALID_STATUS, the accessors report expired, and the record is never
\* approved or denied
C24_StalePendingIsExpired ==
    [][\A id \in SkillIds :
          (Stale(id) /\ "skillId" \in DOMAIN ret' /\ ret'.skillId = id)
          => /\ ret'.op \in {"approve", "deny"}
                => /\ ret'.error.thrown
                   /\ ret'.error.code = "INVALID_STATUS"
                   /\ approvals'[id].status \notin {"approved", "denied"}
             /\ ret'.op = "isApproved" => ~ret'.result /\ approvals'[id].status = "expired"
             /\ ret'.op = "getApprovalStatus" => ret'.result[1].status = "expired"]_vars

\* C25: with auto-install disabled at most maxPendingApprovals records are
\* pending; requestApproval throws MAX_PENDING_EXCEEDED exactly when that
\* many are pending and then leaves every record as it was, and otherwise
\* it stores a pending record
C25_PendingLimit ==
    [][~skillCfg.autoInstall
       => /\ Cardinality({k \in DOMAIN approvals' : approvals'[k].status = "pending"})
                <= skillCfg.maxPendingApprovals
          /\ ret'.op = "requestApproval"
             => /\ ret'.error.thrown
                   <=> Cardinality(PendingNow) >= skillCfg.maxPendingApprovals
                /\ ret'.error.thrown
                   => /\ ret'.error.code = "MAX_PENDING_EXCEEDED"
                      /\ approvals' = approvals
                /\ ~ret'.error.thrown
                   => /\ approvals'[ret'.skillId].status = "pending"
                      /\ approvals'[ret'.skillId].requestedAt = now]_vars

\* a request rejected at the limit, after an earlier pending record expired
\* and a later request was accepted in its place
C25_Witness ==
    /\ ~skillCfg.autoInstall
    /\ ret.op = "requestApproval"
    /\ ret.skillId = "skill-1"
    /\ ret.error.thrown
    /\ ret.error.code = "MAX_PENDING_EXCEEDED"
    /\ DOMAIN approvals = SkillIds
    /\ approvals["skill-1"].status = "expired"
    /\ approvals["skill-2"].status = "pending"


----------------------------------------------------------------------------
(* Claims about the layers of the tool policy engine *)

\* the value of an absent rateLimitStatus / confirmationDetails
NoRateLimitStatus == [allowed |-> "undefined"]

NoConfirmationDetails ==
    [reason |-> "undefined", category |-> "undefined", severity |-> "undefined"]

\* C26: check applies the capability matrix, the rate limiter, the schema
\* validator and the confirmation gate in this order and stops at the first
\* layer that denies: the result carries that layer's reason, and no later
\* layer is evaluated (its part of the result is absent) or has its state
\* touched (a capability denial leaves the rate limiter's session map as it
\* was; no denial touches the pending confirmations).
C26_ShortCircuitOnFirstDenial ==
    [][\A s \in PolicySessions, c \in CheckCalls :
          Check(s, c[1], c[2], c[3], c[4]) =>
             LET capResult == checkCapability(c[1], c[3])
                 rate == checkToolCall(sessionUsage, s)
                 validationResult == validateToolCall(c[2], c[4])
                 res == ret'.result
             IN  IF policyCfg.enableCapabilityChecks /\ ~capResult.allowed
                 THEN /\ ~res.allowed
                      /\ res.reason = capResult.reason
                      /\ sessionUsage' = sessionUsage
                      /\ res.rateLimitStatus = NoRateLimitStatus
                      /\ res.validationErrors = {}
                      /\ ~res.requiresConfirmation
                      /\ res.confirmationDetails = NoConfirmationDetails
                      /\ pendingConfirmations' = pendingConfirmations
                 ELSE IF policyCfg.enableRateLimiting /\ rate.error.thrown
                 THEN /\ ~res.allowed
                      /\ res.reason = rate.error.message
                      /\ sessionUsage' = rate.usage
                      /\ res.rateLimitStatus = NoRateLimitStatus
                      /\ res.validationErrors = {}
                      /\ ~res.requiresConfirmation
                      /\ res.confirmationDetails = NoConfirmationDetails
                      /\ pendingConfirmations' = pendingConfirmations
                 ELSE IF policyCfg.enableSchemaValidation /\ ~validationResult.valid
                 THEN /\ ~res.allowed
                      /\ res.reason = <<"Validation failed:", validationResult.errors>>
                      /\ res.validationErrors = validationResult.errors
                      /\ ~res.requiresConfirmation
                      /\ res.confirmationDetails = NoConfirmationDetails
                      /\ pendingConfirmations' = pendingConfirmations
                 ELSE /\ res.allowed
                      /\ res.reason = <<"Policy checks passed">>]_vars

\* a check was denied by the capability layer while the rate limiter, whose
\* layer is enabled, would have thrown for the same session
C26_Witness ==
    /\ policyCfg.enableCapabilityChecks
    /\ policyCfg.enableRateLimiting
    /\ ret.op = "check"
    /\ ~ret.result.allowed
    /\ ret.result.reason = <<"Capability", "bash-unrestricted", "is denied for", "guest", "sessions">>
    /\ ret.sessionId \in DOMAIN sessionUsage
    /\ checkToolCall(sessionUsage, ret.sessionId).error.thrown
    /\ ret.result.rateLimitStatus = NoRateLimitStatus


\* the confirmationDetails that check copies from a requiresConfirmation result
DetailsOf(required) ==
    [reason |-> required.reason, category |-> required.category,
     severity |-> required.severity]

\* C27 (as claimed): whenever check allows a call, requiresConfirmation is
\* true if the capability level of the session is confirm or the
\* destructive-pattern gate reports required; when both apply, the
\* confirmation details are those of the destructive pattern.
C27_ConfirmationComposition ==
    \A s \in PolicySessions, st \in SessionTypes, cap \in Capabilities, tp \in ToolCalls :
        LET r == policyCheck(s, st, tp[1], cap, tp[2]).result
            level == CAPABILITY_MATRIX[st][cap]
            gate == requiresConfirmation(PolicyGate, tp[1], tp[2])
        IN  r.allowed =>
               /\ (level = "confirm" \/ gate.required) => r.requiresConfirmation
               /\ (level = "confirm" /\ gate.required) =>
                      r.confirmationDetails = DetailsOf(gate)

\* C27 (amended): the same for an engine whose confirmation gates are
\* enabled, the capability level counting only when the capability checks
\* are enabled too; with the gates disabled an allowed call never requires
\* confirmation.  When only the capability level applies, the details are
\* the capability's reason with category privileged and severity medium.
\* Stated in the states that a check has just left, for every call that
\* can come next.
C27_ConfirmationCompositionWhenEnabled ==
    ret.op = "check" =>
    \A s \in PolicySessions, st \in SessionTypes, cap \in Capabilities, tp \in ToolCalls :
        LET r == policyCheck(s, st, tp[1], cap, tp[2]).result
            capConfirm == /\ policyCfg.enableCapabilityChecks
                          /\ CAPABILITY_MATRIX[st][cap] = "confirm"
            gate == requiresConfirmation(PolicyGate, tp[1], tp[2])
        IN  r.allowed =>
               /\ r.requiresConfirmation =
                      (policyCfg.enableConfirmationGates /\ (capConfirm \/ gate.required))
               /\ (policyCfg.enableConfirmationGates /\ gate.required) =>
                      r.confirmationDetails = DetailsOf(gate)
               /\ (policyCfg.enableConfirmationGates /\ capConfirm /\ ~gate.required) =>
                      r.confirmationDetails =
                          [reason |-> <<"Capability", cap, "requires confirmation for",
                                        st, "sessions">>,
                           category |-> "privileged", severity |-> "medium"]

\* a check returned for a call whose capability level is confirm and whose
\* command matches a destructive pattern, with the pattern's details
C27_Witness ==
    /\ policyCfg.enableConfirmationGates
    /\ policyCfg.enableCapabilityChecks
    /\ ret.op = "check"
    /\ ret.result.allowed
    /\ ret.result.requiresConfirmation
    /\ ret.result.confirmationDetails =
           [reason |-> "File or directory deletion", category |-> "destructive",
            severity |-> "high"]
    /\ \E c \in CheckCalls :
          /\ CAPABILITY_MATRIX[c[1]][c[3]] = "confirm"
          /\ requiresConfirmation(PolicyGate, c[2], c[4]).required
          /\ policyCheck(ret.sessionId, c[1], c[2], c[3], c[4]).result = ret.result


\* C28: whenever the confirmation gate decides, for a call that check
\* allows, that confirmation is required, a pending confirmation has been
\* created once the decision is returned: a record under a fresh id, bound
\* to the calling session and expiring timeoutMs after its creation, is in
\* the gate's pending map.
C28_RequiredCreatesPending ==
    [][\A s \in PolicySessions, c \in CheckCalls :
          (/\ Check(s, c[1], c[2], c[3], c[4])
           /\ policyCfg.enableConfirmationGates
           /\ requiresConfirmation(PolicyGate, c[2], c[4]).required
           /\ ret'.result.allowed)
          => \E id \in (DOMAIN pendingConfirmations') \ IssuedIds :
                /\ pendingConfirmations'[id].sessionId = s
                /\ pendingConfirmations'[id].createdAt = now
                /\ pendingConfirmations'[id].expiresAt = now + gateCfg[PolicyGate].timeoutMs]_vars


\* the execution capabilities: the shell tiers, canvas-eval, node-invoke and
\* skill-execute
ExecutionCapabilities ==
    {"bash-unrestricted", "bash-sandboxed", "bash-read-only", "canvas-eval",
     "node-invoke", "skill-execute"}

\* the capabilities that write shared state: file-write, file-delete,
\* config-write, the session, cron and webhook mutations, and skill-install
SharedStateWriteCapabilities ==
    {"file-write", "file-delete", "config-write", "sessions-send", "sessions-create",
     "cron-create", "cron-delete", "webhook-register", "webhook-delete", "skill-install"}

\* C29: for session type sandbox every execution capability and every
\* capability that writes shared state has level deny in the capability
\* matrix, and checkCapability never returns allowed=true for it, so that an
\* engine whose capability checks are enabled never allows it either.
C29_SandboxDeniesExecutionAndWrites ==
    \A capability \in ExecutionCapabilities \cup SharedStateWriteCapabilities :
        /\ CAPABILITY_MATRIX["sandbox"][capability] = "deny"
        /\ ~checkCapability("sandbox", capability).allowed
        /\ policyCfg.enableCapabilityChecks =>
               \A s \in PolicySessions, tp \in ToolCalls :
                   ~policyCheck(s, "sandbox", tp[1], capability, tp[2]).result.allowed


\* C30: every policy decision produces exactly one audit event: each check,
\* whether it allows or denies, appends exactly one event to the audit log,
\* with an outcome of success, blocked or error, and a denial with outcome
\* blocked.
C30_OneAuditEventPerDecision ==
    [][ret'.op = "check" =>
          /\ Len(events') = Len(events) + 1
          /\ events'[Len(events')].event.outcome \in {"success", "blocked", "error"}
          /\ ~ret'.result.allowed => events'[Len(events')].event.outcome = "blocked"]_vars


\* C31: check never raises for a policy denial: a capability denial, a
\* rate-limit violation and a schema validation failure are each returned as
\* a result with allowed=false and a reason, in every state of the rate
\* limiter; no check step ends in a thrown error.
C31_DenialsAreResults ==
    [][\A s \in PolicySessions, c \in CheckCalls :
          Check(s, c[1], c[2], c[3], c[4]) =>
             LET denied ==
                    \/ policyCfg.enableCapabilityChecks /\ ~checkCapability(c[1], c[3]).allowed
                    \/ policyCfg.enableRateLimiting /\ checkToolCall(sessionUsage, s).error.thrown
                    \/ policyCfg.enableSchemaValidation /\ ~validateToolCall(c[2], c[4]).valid
             IN  /\ ~ret'.thrown
                 /\ denied =>
                       /\ ret'.result.allowed = FALSE
                       /\ ret'.result.reason \notin {Undefined, EmptyString}]_vars

\* a check has returned the rate limiter's hourly violation as a result
C31_Witness ==
    /\ ret.op = "check"
    /\ ~ret.thrown
    /\ ~ret.result.allowed
    /\ ret.result.reason = <<"Rate limit exceeded:", 2, "/", 2, "calls per hour">>


----------------------------------------------------------------------------
(* Specification of the daily token budget: one session checks and records *)
(* token spend, reads its usage and probes a tool call, while the clock    *)
(* advances by half a UTC day at a time.                                   *)

BudgetTickMs == DayMs \div 2

BudgetTick ==
    /\ now < MaxTicks * DayMs
    /\ now' = now + BudgetTickMs
    /\ ret' = [op |-> "tick", gate |-> 0]
    /\ UNCHANGED <<pendingConfirmations, idNonce, requestedVia, confirmCount,
                   sessionUsage, limiterHist>>

\* a daily budget of two dollars, spent in one or two steps
BudgetRateLimits == [DEFAULT_RATE_LIMITS EXCEPT !.maxDailyTokenBudgetUSD = 2]

BudgetCostsUSD == {1, 2}

InitBudget ==
    /\ InitGateState
    /\ gateCfg \in GateConfigs
    /\ policyCfg = [DEFAULT_POLICY_CONFIG EXCEPT !.rateLimits = BudgetRateLimits]
    /\ sessionUsage = <<>>
    /\ auditCfg = DEFAULT_AUDIT_CONFIG
    /\ InitAuditState
    /\ InitIdle

NextBudget ==
    \/ \E s \in LimiterSessions, c \in BudgetCostsUSD : CheckTokenBudget(s, c) /\ LimiterOther
    \/ \E s \in LimiterSessions, c \in BudgetCostsUSD : RecordTokenSpend(s, c) /\ LimiterOther
    \/ \E s \in LimiterSessions : GetUsage(s) /\ LimiterOther
    \/ \E s \in LimiterSessions : ProbeToolCall(s) /\ LimiterOther
    \/ \E s \in LimiterSessions : ResetUsage(s) /\ LimiterOther
    \/ BudgetTick /\ LimiterOther

SpecBudget == InitBudget /\ [][NextBudget]_vars

----------------------------------------------------------------------------
(* Claims about the daily token budget *)

\* the spend a session has recorded on a UTC day, from the history
RECURSIVE SpentOn(_, _)
SpentOn(history, day) ==
    IF history = <<>> THEN 0
    ELSE (IF Head(history)[1] = day THEN Head(history)[2] ELSE 0) + SpentOn(Tail(history), day)

\* C33: dailyTokenSpendUSD is reset whenever the usage record is accessed on
\* a UTC date other than lastResetDate, before the budget check or the spend
\* recording of that access takes effect: after every access the record is
\* dated today and its daily spend is exactly the spend recorded today, the
\* budget check counts today's spend only, and getUsage reports it.
C33_DailySpendCountsToday ==
    [][\A s \in LimiterSessions :
          LET today == getCurrentDateString
          IN  /\ (/\ ret'.op \in {"checkTokenBudget", "recordTokenSpend", "getUsage",
                                  "checkToolCall"}
                  /\ ret'.sessionId = s)
                 => /\ s \in DOMAIN sessionUsage'
                    /\ sessionUsage'[s].lastResetDate = today
                    /\ sessionUsage'[s].dailyTokenSpendUSD = SpentOn(spent'[s], today)
              /\ \A c \in BudgetCostsUSD :
                    CheckTokenBudget(s, c) =>
                       (ret'.outcome.thrown
                           <=> SpentOn(spent[s], today) + c > rateCfg.maxDailyTokenBudgetUSD)
              /\ (ret'.op = "getUsage" /\ ret'.sessionId = s)
                 => ret'.outcome.dailySpendUSD = SpentOn(spent[s], today)]_vars

\* the whole budget was spent on day 0, and on day 1 a budget check passed
\* against a daily spend of zero
C33_Witness ==
    /\ spent["s1"] = << <<0, 2>> >>
    /\ getCurrentDateString = 1
    /\ ret.op = "checkTokenBudget"
    /\ ~ret.outcome.thrown
    /\ sessionUsage["s1"].dailyTokenSpendUSD = 0
    /\ sessionUsage["s1"].lastResetDate = 1


----------------------------------------------------------------------------
(* Specification of a caller that follows the retry hint: the handlers of   *)
(* the limiter specification, and a caller that, after a RateLimitError of  *)
(* type minute or hourly, waits retryAfterMs before it checks again.        *)

\* the caller sleeps for the hint of the error it has just caught
AwaitRetry(sessionId) ==
    /\ ret.op = "checkToolCall"
    /\ ret.sessionId = sessionId
    /\ ret.error.thrown
    /\ ret.error.type \in {"minute", "hourly"}
    /\ now' = now + ret.error.retryAfterMs
    /\ ret' = [op |-> "awaitRetry", gate |-> 0, sessionId |-> sessionId,
               type |-> ret.error.type, retryAfterMs |-> ret.error.retryAfterMs]
    /\ UNCHANGED <<pendingConfirmations, idNonce, requestedVia, confirmCount,
                   sessionUsage, limiterHist>>

NextRetry ==
    \/ NextLimiter
    \/ \E s \in LimiterSessions : AwaitRetry(s) /\ LimiterOther

SpecRetry == InitLimiter /\ [][NextRetry]_vars

\* C39: rate limits are recoverable: when checkToolCall has thrown a
\* RateLimitError of type minute or hourly with hint retryAfterMs and no
\* further call is recorded for the session, a check made retryAfterMs later
\* is not rejected for that same limit.
C39_RetryHintSuffices ==
    ret.op = "awaitRetry" =>
        LET error == checkToolCall(sessionUsage, ret.sessionId).error
        IN  ~(error.thrown /\ error.type = ret.type)


\* C40: after any sequence of token-store operations the token map and the
\* per-user index agree: a hash is stored in the token map with user u if
\* and only if it is a member of u's set, so the size of u's set, which the
\* per-user cap uses, is the number of stored tokens of u.
C40_IndexAgreesWithMap ==
    /\ \A h \in DOMAIN tokens :
          /\ tokens[h].userId \in DOMAIN userTokens
          /\ h \in userTokens[tokens[h].userId]
    /\ \A u \in DOMAIN userTokens :
          /\ \A h \in userTokens[u] : h \in DOMAIN tokens /\ tokens[h].userId = u
          /\ Cardinality(userTokens[u])
                = Cardinality({h \in DOMAIN tokens : tokens[h].userId = u})

\* validate has removed an expired token and left its user's set empty in
\* the index, while another user's token is stored
C40_Witness ==
    /\ ret.op = "validate"
    /\ ~ret.result.valid
    /\ ret.result.reason = <<"Token expired">>
    /\ \E u \in DOMAIN userTokens : userTokens[u] = {}
    /\ tokens # <<>>


----------------------------------------------------------------------------
(* Claims about the fields of a logged event *)

\* inferSeverity(outcome, toolName) of structured-event
inferSeverity(outcome, toolName) ==
    IF outcome = "error" THEN "error"
    ELSE IF outcome = "blocked" THEN "warning"
    ELSE IF toolName \in {"bash", "write", "edit", "delete"} THEN "warning"
    ELSE "info"

\* C36: an event logged without an explicit severity receives the inferred
\* severity: error for outcome error, warning for outcome blocked, warning
\* for a high-risk tool name, and info otherwise.
C36_SeverityInferred ==
    [][\A params \in LogParams :
          (/\ Log(params)
           /\ auditCfg.enabled
           /\ "severity" \notin DOMAIN params)
          => events'[Len(events')].event.severity
                = inferSeverity(params.outcome, params.toolName)]_vars


----------------------------------------------------------------------------
(* Specification of hashArgs: the function is applied to one arguments     *)
(* object after another; the last two calls are kept.                      *)

\* arguments objects: flat ones in both key orders, with equal and with
\* different values, and ones with nested objects
ArgsInputs ==
    {<<>>,
     << <<"a", Num(1)>>, <<"b", Num(2)>> >>,
     << <<"b", Num(2)>>, <<"a", Num(1)>> >>,
     << <<"a", Num(1)>> >>,
     << <<"a", Num(2)>> >>,
     << <<"a", Str("1")>> >>,
     << <<"command", Str("ls")>> >>,
     << <<"a", Obj(<<>>)>> >>,
     << <<"a", Obj(<< <<"a", Num(1)>> >>)>> >>,
     << <<"a", Obj(<< <<"a", Num(2)>> >>)>> >>,
     << <<"a", Obj(<< <<"x", Num(1)>> >>)>> >>,
     << <<"a", Obj(<< <<"x", Num(2)>> >>)>> >>,
     << <<"a", Obj(<< <<"x", Num(1)>>, <<"y", Num(2)>> >>)>>, <<"x", Num(3)>> >>,
     << <<"x", Num(3)>>, <<"a", Obj(<< <<"y", Num(2)>>, <<"x", Num(1)>> >>)>> >>}

HashArgs(args) ==
    /\ ret' = [op |-> "hashArgs", gate |-> 0, args |-> args, result |-> hashArgs(args),
               previous |-> IF ret.op = "hashArgs"
                            THEN <<[args |-> ret.args, result |-> ret.result]>>
                            ELSE <<>>]
    /\ UNCHANGED <<now, pendingConfirmations, gateCfg, idNonce, requestedVia, confirmCount,
                   policyCfg, sessionUsage, auditVars, limiterHist, tokenVars, skillVars, navVars, filterVars>>

NextHashArgs == \E args \in ArgsInputs : HashArgs(args)

SpecHashArgs == InitPolicy /\ [][NextHashArgs]_vars

\* two values have the same content: the same type and value, or objects
\* with the same keys and, under each key, the same content
RECURSIVE SameContent(_, _)
SameContent(v, w) ==
    /\ v.type = w.type
    /\ IF v.type = "object"
       THEN /\ {v.value[i][1] : i \in DOMAIN v.value} = {w.value[i][1] : i \in DOMAIN w.value}
            /\ \A i \in DOMAIN v.value :
                  SameContent(v.value[i][2], ObjectGet(w.value, v.value[i][1]))
       ELSE v.value = w.value

\* C37: hashArgs depends exactly on the content of the arguments: two
\* arguments objects have the same hash if and only if they contain the same
\* keys with the same values, values nested inside objects included,
\* whatever the order of their keys.
C37_HashIffSameContent ==
    (ret.op = "hashArgs" /\ ret.previous # <<>>) =>
        ((ret.result = ret.previous[1].result)
            <=> SameContent(Obj(ret.args), Obj(ret.previous[1].args)))


----------------------------------------------------------------------------
(* Specification of the buffered shipper used before and after close()     *)

InitShipper ==
    /\ InitAudit
    /\ auditCfg.buffered

NextShipper ==
    \/ NextAudit
    \/ \E params \in LogParams : LogAfterClose(params) /\ AuditOther

SpecShipper == InitShipper /\ [][NextShipper]_vars

\* how many times x occurs in the sequence q
RECURSIVE Occurrences(_, _)
Occurrences(q, x) ==
    IF q = <<>> THEN 0
    ELSE (IF Head(q) = x THEN 1 ELSE 0) + Occurrences(Tail(q), x)

\* close() has returned and the shipper has nothing left to do on its own:
\* no interval timer, no flushBuffer running
ShipperIdleAfterClose ==
    /\ closeCall = "closed"
    /\ ~timer
    /\ inFlight = {}

\* C38 (as claimed): whatever the interleaving of ship, the flushes and close
\* on the buffered shipper, every event accepted by ship is handed to the
\* inner shipper exactly once.  Stated for a working inner shipper: while no
\* inner.ship call has failed, no accepted event is handed over twice, none
\* is lost, and once close() has returned and no flush is running every
\* accepted event has been handed over.
C38_DeliveredExactlyOnce ==
    (auditCfg.buffered /\ shipErrors = {}) =>
        \A i \in DOMAIN events :
            LET id == events[i].event.eventId
            IN  /\ Occurrences(delivered, id) <= 1
                /\ \/ id \in Range(buffer)
                   \/ id \in Range(delivered)
                   \/ \E f \in inFlight : id \in Range(f.batch)
                /\ ShipperIdleAfterClose => id \in Range(delivered)


----------------------------------------------------------------------------
(* Browser guard: src/security/browser-guard/url-blocklist.ts and          *)
(* navigation-policy.ts.  A URL string is modelled by what the checks read *)
(* from it: whether it is empty or parses, its protocol, its host as a     *)
(* sequence of labels (empty for about: URLs, whose hostname is ""), and   *)
(* whether the raw host holds a confusable character.                      *)

MinuteMs == 60 * 1000

Url(protocol, host) == [kind |-> "url", protocol |-> protocol, host |-> host,
                        confusable |-> FALSE]

BLOCKED_PROTOCOLS == {"javascript:", "data:", "vbscript:", "file:", "ftp:"}
ALLOWED_PROTOCOLS == {"http:", "https:", "about:"}

\* q starts with the labels of prefix
StartsWith(q, prefix) ==
    /\ Len(q) >= Len(prefix)
    /\ SubSeq(q, 1, Len(prefix)) = prefix

\* q ends with the labels of suffix
EndsWith(q, suffix) ==
    /\ Len(q) >= Len(suffix)
    /\ SubSeq(q, Len(q) - Len(suffix) + 1, Len(q)) = suffix

\* CLOUD_METADATA_PATTERNS, as prefixes of the host
CLOUD_METADATA_PATTERNS ==
    {<<"169", "254", "169", "254">>, <<"metadata", "google", "internal">>,
     <<"100", "100", "100", "200">>, <<"kubernetes", "default">>}

\* PRIVATE_NETWORK_PATTERNS, as prefixes of the host (the ranges by one
\* address each)
PRIVATE_NETWORK_PATTERNS ==
    {<<"169", "254">>, <<"10">>, <<"192", "168">>, <<"localhost">>, <<"127">>,
     <<"0", "0", "0", "0">>}

BlockedNavigationError(reason, category) ==
    [thrown |-> TRUE, name |-> "BlockedNavigationError", reason |-> reason,
     category |-> category]

NavigationRateLimitError(count, limit, retryAfterMs) ==
    [thrown |-> TRUE, name |-> "NavigationRateLimitError", category |-> "rate-limit",
     reason |-> <<"Navigation rate limit exceeded:", count, "/", limit>>,
     retryAfterMs |-> retryAfterMs]

\* extractRawHostname: only http and https URLs have a raw host
extractRawHostname(url) ==
    IF url.protocol \in {"http:", "https:"} THEN url.host ELSE <<>>

\* isBlockedUrl(url)
isBlockedUrl(url) ==
    IF url.kind = "empty"
    THEN [blocked |-> TRUE, reason |-> <<"Empty URL">>, category |-> "protocol"]
    ELSE IF url.kind = "invalid"
    THEN [blocked |-> TRUE, reason |-> <<"Invalid URL">>, category |-> "protocol"]
    ELSE IF url.protocol \in BLOCKED_PROTOCOLS
    THEN [blocked |-> TRUE, reason |-> <<"Blocked protocol:", url.protocol>>,
          category |-> "protocol"]
    ELSE IF url.protocol \notin ALLOWED_PROTOCOLS
    THEN [blocked |-> TRUE, reason |-> <<"Unknown protocol:", url.protocol>>,
          category |-> "protocol"]
    ELSE IF url.protocol = "about:"
    THEN [blocked |-> FALSE]
    ELSE IF extractRawHostname(url) # <<>> /\ url.confusable
    THEN [blocked |-> TRUE, reason |-> <<"Possible IDN homograph attack">>,
          category |-> "homograph"]
    ELSE IF \E p \in CLOUD_METADATA_PATTERNS : StartsWith(url.host, p)
    THEN [blocked |-> TRUE, reason |-> <<"Blocked cloud metadata endpoint">>,
          category |-> "cloud-metadata"]
    ELSE IF \E p \in PRIVATE_NETWORK_PATTERNS : StartsWith(url.host, p)
    THEN [blocked |-> TRUE, reason |-> <<"Blocked private network access">>,
          category |-> "private-network"]
    ELSE [blocked |-> FALSE]

\* the callback of cfg.domainAllowlist.some and cfg.domainBlocklist.some: a
\* list entry is the labels of a domain, "*" first for a wildcard entry
domainMatches(hostname, domain) ==
    IF domain # <<>> /\ Head(domain) = "*"
    THEN hostname = Tail(domain) \/ EndsWith(hostname, Tail(domain))
    ELSE hostname = domain

\* cleanupTimestamps(timestamps, windowMs)
cleanupTimestamps(timestamps, windowMs) ==
    SelectSeq(timestamps, LAMBDA ts : ts > now - windowMs)

\* getNavigationRecord(records, sessionId).timestamps
getNavigationRecord(records, sessionId) ==
    IF sessionId \in DOMAIN records THEN records[sessionId] ELSE <<>>

\* checkNavigation(sessionId, url): the navigation records it leaves and
\* what it returns or throws
checkNavigation(sessionId, url) ==
    LET blockResult == isBlockedUrl(url)
        hasList(name) == name \in DOMAIN navCfg /\ Len(navCfg[name]) > 0
        listed(name) == \E i \in DOMAIN navCfg[name] :
                            domainMatches(url.host, navCfg[name][i])
        timestamps == cleanupTimestamps(getNavigationRecord(navigationRecords, sessionId),
                                        HourMs)
        navigationsThisMinute == Len(SelectSeq(timestamps, LAMBDA ts : ts > now - MinuteMs))
        navigationsThisHour == Len(timestamps)
        cleaned == MapSet(navigationRecords, sessionId, timestamps)
    IN  IF blockResult.blocked
        THEN [records |-> navigationRecords,
              result |-> BlockedNavigationError(blockResult.reason, blockResult.category)]
        ELSE IF hasList("domainAllowlist") /\ ~listed("domainAllowlist")
        THEN [records |-> navigationRecords,
              result |-> BlockedNavigationError(<<"Domain not in allowlist:", url.host>>,
                                                "domain-allowlist")]
        ELSE IF hasList("domainBlocklist") /\ listed("domainBlocklist")
        THEN [records |-> navigationRecords,
              result |-> BlockedNavigationError(<<"Domain is blocklisted:", url.host>>,
                                                "domain-blocklist")]
        ELSE IF navigationsThisMinute >= navCfg.maxNavigationsPerMinute
        THEN [records |-> cleaned,
              result |-> NavigationRateLimitError(navigationsThisMinute,
                             navCfg.maxNavigationsPerMinute, MinuteMs)]
        ELSE IF navigationsThisHour >= navCfg.maxNavigationsPerHour
        THEN [records |-> cleaned,
              result |-> NavigationRateLimitError(navigationsThisHour,
                             navCfg.maxNavigationsPerHour, HourMs)]
        ELSE [records |-> cleaned,
              result |-> [thrown |-> FALSE, allowed |-> TRUE,
                          reason |-> <<"Navigation allowed">>,
                          navigationsThisMinute |-> navigationsThisMinute,
                          navigationsThisHour |-> navigationsThisHour]]

NavOther ==
    UNCHANGED <<pendingConfirmations, gateCfg, idNonce, requestedVia, confirmCount,
                policyCfg, sessionUsage, auditVars, limiterHist, tokenVars, skillVars,
                navCfg, filterVars>>

CheckNavigation(sessionId, url) ==
    LET r == checkNavigation(sessionId, url)
    IN  /\ navigationRecords' = r.records
        /\ ret' = [op |-> "checkNavigation", gate |-> 0, sessionId |-> sessionId,
                   url |-> url, result |-> r.result]
        /\ UNCHANGED now

\* recordNavigation(sessionId)
RecordNavigation(sessionId) ==
    /\ Len(getNavigationRecord(navigationRecords, sessionId)) < MaxCalls
    /\ navigationRecords' = MapSet(navigationRecords, sessionId,
           Append(getNavigationRecord(navigationRecords, sessionId), now))
    /\ ret' = [op |-> "recordNavigation", gate |-> 0]
    /\ UNCHANGED now

\* checkRedirectChain(chainLength)
CheckRedirectChain(length) ==
    /\ ret' = [op |-> "checkRedirectChain", gate |-> 0,
               result |-> IF length > navCfg.maxRedirectChainLength
                          THEN BlockedNavigationError(<<"Redirect chain too long">>,
                                                      "redirect-chain")
                          ELSE [thrown |-> FALSE]]
    /\ UNCHANGED <<now, navigationRecords>>

\* resetSession(sessionId)
ResetSession(sessionId) ==
    /\ navigationRecords' = [s \in DOMAIN navigationRecords \ {sessionId} |->
                                navigationRecords[s]]
    /\ ret' = [op |-> "resetSession", gate |-> 0]
    /\ UNCHANGED now

\* the clock advances by half a minute, or by an hour
NavTick ==
    /\ \/ (now % HourMs) < MaxTicks * (MinuteMs \div 2) /\ now' = now + MinuteMs \div 2
       \/ now < HourMs /\ now' = now + HourMs
    /\ ret' = [op |-> "tick", gate |-> 0]
    /\ UNCHANGED navigationRecords

NavSessions == {"s1"}

NavUrls ==
    {[kind |-> "empty"], [kind |-> "invalid"],
     Url("about:", <<>>),
     Url("javascript:", <<>>),
     Url("gopher:", <<"example", "com">>),
     Url("https:", <<"example", "com">>),
     Url("https:", <<"docs", "example", "com">>),
     Url("https:", <<"evil", "com">>),
     [Url("https:", <<"google", "com">>) EXCEPT !.confusable = TRUE],
     Url("http:", <<"169", "254", "169", "254">>),
     Url("http:", <<"localhost">>)}

NavLimits ==
    [DEFAULT_NAVIGATION_POLICY EXCEPT !.maxNavigationsPerMinute = 2,
                                      !.maxNavigationsPerHour = 2]

\* the default lists (none), an empty allowlist, an exact and a wildcard
\* allowlist, and a blocklist
NavConfigs ==
    {NavLimits,
     NavLimits @@ [domainAllowlist |-> <<>>],
     NavLimits @@ [domainAllowlist |-> << <<"example", "com">> >>],
     NavLimits @@ [domainAllowlist |-> << <<"*", "example", "com">> >>],
     NavLimits @@ [domainBlocklist |-> << <<"evil", "com">> >>]}

InitNavigation ==
    /\ InitGateState
    /\ gateCfg \in GateConfigs
    /\ policyCfg = DEFAULT_POLICY_CONFIG
    /\ sessionUsage = <<>>
    /\ auditCfg = DEFAULT_AUDIT_CONFIG
    /\ InitAuditState
    /\ InitLimiterHist
    /\ tokenCfg = DEFAULT_TOKEN_STORE_CONFIG
    /\ InitTokenState
    /\ InitSkillState
    /\ navCfg \in NavConfigs
    /\ navigationRecords = <<>>
    /\ InitFilterState

NextNavigation ==
    \/ \E s \in NavSessions, url \in NavUrls : CheckNavigation(s, url) /\ NavOther
    \/ \E s \in NavSessions : RecordNavigation(s) /\ NavOther
    \/ \E n \in {1, 11} : CheckRedirectChain(n) /\ NavOther
    \/ \E s \in NavSessions : ResetSession(s) /\ NavOther
    \/ NavTick /\ NavOther

SpecNavigation == InitNavigation /\ [][NextNavigation]_vars

\* C32 (as claimed): checkNavigation of an about: URL passes after the
\* protocol gate: it is allowed under every configuration and every state of
\* the session's navigation record.
C32_AboutUrlsPass ==
    (ret.op = "checkNavigation" /\ ret.url.kind = "url" /\ ret.url.protocol = "about:")
        => ~ret.result.thrown


----------------------------------------------------------------------------
(* Prompt sanitizer: src/security/prompt-sanitizer/patterns.ts, wrapper.ts *)
(* and index.ts.  A message is a sequence of fragments; a fragment is      *)
(* plain text, a text that one injection pattern matches, or a base64 word *)
(* whose decoded text an injection pattern matches.                        *)

\* fragments of a message
MaxFragments == 2

\* INJECTION_PATTERNS, one pattern of each kind the sanitizer tells apart,
\* named by a text it matches
INJECTION_PATTERNS ==
    {[pattern |-> "ignore previous instructions", category |-> "instruction-override",
      severity |-> "high"],
     [pattern |-> "[INST]", category |-> "system-prompt", severity |-> "high"],
     [pattern |-> "u202e", category |-> "unicode-obfuscation", severity |-> "high"],
     [pattern |-> "roleplay as", category |-> "persona-hijack", severity |-> "medium"],
     [pattern |-> "hide this", category |-> "output-manipulation", severity |-> "low"]}

Base64Word == "aWdub3JlIHByZXZpb3VzIGluc3RydWN0aW9ucw"

Fragments == {"hello", Base64Word} \cup {p.pattern : p \in INJECTION_PATTERNS}

\* pattern.test(text)
PatternMatches(p, text) == \E i \in DOMAIN text : text[i] = p.pattern

\* containsBase64Payload(text).detected
containsBase64Payload(text) == \E i \in DOMAIN text : text[i] = Base64Word

\* detectInjectionPatterns(text)
detectInjectionPatterns(text) ==
    LET matches == {p \in INJECTION_PATTERNS : PatternMatches(p, text)}
        count(severity) == Cardinality({p \in matches : p.severity = severity})
        score == 40 * count("high") + 20 * count("medium") + 10 * count("low")
                 + (IF containsBase64Payload(text) THEN 30 ELSE 0)
    IN  [detected |-> matches # {} \/ containsBase64Payload(text),
         matches |-> matches,
         riskScore |-> IF score < 100 THEN score ELSE 100]

\* containsHighSeverityPattern(text)
containsHighSeverityPattern(text) ==
    \E p \in INJECTION_PATTERNS : p.severity = "high" /\ PatternMatches(p, text)

\* stripDangerousUnicode(text): the RTL override and the zero-width
\* characters are removed
stripDangerousUnicode(text) == SelectSeq(text, LAMBDA fragment : fragment # "u202e")

\* normalizeUntrustedText(text): strips the same characters, then collapses
\* runs of blanks and of newlines, of which the fragments hold none
normalizeUntrustedText(text) == stripDangerousUnicode(text)

\* wrapUntrustedInput(content, options): the envelope around the content
wrapUntrustedInput(content, detection, includeMetadata) ==
    IF includeMetadata /\ detection.detected
    THEN [tag |-> "untrusted-input", warning |-> FALSE, content |-> content,
          riskScore |-> detection.riskScore]
    ELSE [tag |-> "untrusted-input", warning |-> FALSE, content |-> content]

\* wrapHighRiskContent(content, options): a security warning before the envelope
wrapHighRiskContent(content, detection) ==
    [wrapUntrustedInput(content, detection, TRUE) EXCEPT !.warning = TRUE]

\* createSanitizer(cfg).sanitize(content, source): the result and the
\* sanitization event it logs (none when nothing was detected)
sanitize(cfg, content) ==
    IF ~cfg.enabled
    THEN [result |-> [sanitized |-> wrapUntrustedInput(content, [detected |-> FALSE], FALSE),
                      original |-> content, detected |-> FALSE, modified |-> FALSE,
                      highRisk |-> FALSE],
          logged |-> <<>>]
    ELSE LET detection == detectInjectionPatterns(content)
             stripped == IF cfg.stripUnicode THEN stripDangerousUnicode(content)
                         ELSE content
             processedContent == IF cfg.normalizeWhitespace
                                 THEN normalizeUntrustedText(stripped)
                                 ELSE stripped
             highRisk == detection.riskScore >= cfg.highRiskThreshold
             blocked == cfg.strictMode /\ highRisk
             sanitized ==
                 IF blocked
                 THEN [tag |-> "blocked-content",
                       reason |-> "high-risk-injection-detected",
                       riskScore |-> detection.riskScore]
                 ELSE IF highRisk
                 THEN wrapHighRiskContent(processedContent, detection)
                 ELSE wrapUntrustedInput(processedContent, detection, detection.detected)
             action == IF blocked THEN "blocked"
                       ELSE IF highRisk \/ detection.detected THEN "wrapped"
                       ELSE "passed"
         IN  [result |-> [sanitized |-> sanitized, original |-> content,
                          detected |-> detection.detected,
                          modified |-> processedContent # content,
                          detection |-> detection, highRisk |-> highRisk],
              logged |-> IF cfg.logEvents /\ detection.detected
                         THEN <<[detected |-> detection.detected,
                                 riskScore |-> detection.riskScore,
                                 highRisk |-> highRisk, action |-> action]>>
                         ELSE <<>>]

\* createSanitizer(cfg).quickCheck(content)
quickCheck(cfg, content) ==
    IF ~cfg.enabled THEN [safe |-> TRUE, riskScore |-> 0]
    ELSE [safe |-> detectInjectionPatterns(content).riskScore < cfg.highRiskThreshold,
          riskScore |-> detectInjectionPatterns(content).riskScore]

\* createSanitizer(cfg).shouldBlock(content)
shouldBlock(cfg, content) ==
    IF ~cfg.enabled \/ ~cfg.strictMode THEN FALSE
    ELSE containsHighSeverityPattern(content)

SanitizerConfigs ==
    {[DEFAULT_SANITIZER_CONFIG EXCEPT !.enabled = e, !.strictMode = s, !.stripUnicode = u,
                                      !.normalizeWhitespace = u] :
        e \in BOOLEAN, s \in BOOLEAN, u \in BOOLEAN}

Messages == UNION {[1..n -> Fragments] : n \in 0..MaxFragments}

SanitizerOther ==
    UNCHANGED <<now, pendingConfirmations, gateCfg, idNonce, requestedVia, confirmCount,
                policyCfg, sessionUsage, auditVars, limiterHist, tokenVars, skillVars,
                navVars, filterVars>>

Sanitize(content) ==
    /\ ret' = [op |-> "sanitize", gate |-> 0, content |-> content,
               result |-> sanitize(sanitizerCfg, content).result,
               logged |-> sanitize(sanitizerCfg, content).logged]
    /\ SanitizerOther

QuickCheck(content) ==
    /\ ret' = [op |-> "quickCheck", gate |-> 0, content |-> content,
               result |-> quickCheck(sanitizerCfg, content)]
    /\ SanitizerOther

ShouldBlock(content) ==
    /\ ret' = [op |-> "shouldBlock", gate |-> 0, content |-> content,
               result |-> shouldBlock(sanitizerCfg, content)]
    /\ SanitizerOther

InitSanitizer ==
    /\ InitGateState
    /\ gateCfg \in GateConfigs
    /\ policyCfg = DEFAULT_POLICY_CONFIG
    /\ sessionUsage = <<>>
    /\ auditCfg = DEFAULT_AUDIT_CONFIG
    /\ InitAuditState
    /\ InitLimiterHist
    /\ tokenCfg = DEFAULT_TOKEN_STORE_CONFIG
    /\ InitTokenState
    /\ InitSkillState
    /\ InitNavState
    /\ sanitizerCfg \in SanitizerConfigs
    /\ redactorCfg = DEFAULT_REDACTION_OPTIONS
    /\ outbound = <<>>

NextSanitizer ==
    \/ \E content \in Messages : Sanitize(content)
    \/ \E content \in Messages : QuickCheck(content)
    \/ \E content \in Messages : ShouldBlock(content)

SpecSanitizer == InitSanitizer /\ [][NextSanitizer]_vars

\* C34 (as claimed): in strict mode every message with a high-severity
\* injection pattern is blocked: the sanitized output is the blocked-content
\* sentinel, whatever the risk score.  Stated for an enabled sanitizer.
C34_StrictModeBlocksHighSeverity ==
    (/\ ret.op = "sanitize"
     /\ sanitizerCfg.enabled
     /\ sanitizerCfg.strictMode
     /\ containsHighSeverityPattern(ret.content))
        => ret.result.sanitized.tag = "blocked-content"


----------------------------------------------------------------------------
(* Outbound redactor: src/security/output-redaction/filter.ts, patterns.ts *)
(* and entropy.ts.  A text is a sequence of characters.  Each detector is  *)
(* modelled by the literal texts it recognises: a secret pattern matches   *)
(* one literal wherever it occurs, the base64 and the entropy detector     *)
(* look at the maximal runs of token characters.                           *)

\* characters of an outbound text
MaxChars == 4

Alphabet == {"a", "b", " "}

\* the characters of [a-zA-Z0-9+/=_-]
TokenChars == {"a", "b"}

\* SECRET_PATTERNS, in order: a high-confidence and a low-confidence pattern
SECRET_PATTERNS ==
    <<[type |-> "KEY_A", literal |-> <<"a", "b">>, highConfidence |-> TRUE],
      [type |-> "KEY_B", literal |-> <<"b", "a">>, highConfidence |-> FALSE]>>

\* runs that detectBase64Secrets decodes to a secret
Base64Secrets == {<<"b", "b", "b">>}

\* runs whose entropy reaches the threshold
HighEntropyStrings == {<<"a", "a">>, <<"b", "b">>}

\* looksLikeSecret(str)
looksLikeSecret(str) == str = <<"a", "a">>

\* match occurs in text at index i
OccursAt(text, match, i) ==
    /\ i + Len(match) - 1 <= Len(text)
    /\ SubSeq(text, i, i + Len(match) - 1) = match

\* text.includes(match)
includes(text, match) == \E i \in 1..Len(text) : OccursAt(text, match, i)

\* a redaction that replaces the first occurrence only
splitJoin_FirstOnly(text, match, placeholder) ==
    IF ~includes(text, match) THEN text
    ELSE LET i == CHOOSE k \in 1..Len(text) :
                      /\ OccursAt(text, match, k)
                      /\ \A j \in 1..(k - 1) : ~OccursAt(text, match, j)
         IN  SubSeq(text, 1, i - 1) \o placeholder
                 \o SubSeq(text, i + Len(match), Len(text))

\* the occurrences of match, left to right and not overlapping, replaced
RECURSIVE replaceFrom(_, _, _)
replaceFrom(text, match, placeholder) ==
    IF Len(text) < Len(match) THEN text
    ELSE IF OccursAt(text, match, 1)
    THEN placeholder \o replaceFrom(SubSeq(text, Len(match) + 1, Len(text)), match,
                                    placeholder)
    ELSE <<Head(text)>> \o replaceFrom(Tail(text), match, placeholder)

\* text.split(match).join(placeholder)
splitJoin(text, match, placeholder) == replaceFrom(text, match, placeholder)

\* createPlaceholder(template, type): the first {TYPE} becomes the type
createPlaceholder(template, type) ==
    [i \in DOMAIN template |->
        IF template[i] = "{TYPE}" /\ \A j \in 1..(i - 1) : template[j] # "{TYPE}"
        THEN type ELSE template[i]]

\* isWhitelisted(match, whitelist): an entry is a pattern that matches one
\* literal
isWhitelisted(match, whitelist) ==
    \E i \in DOMAIN whitelist : includes(match, whitelist[i])

\* detectSecrets(content, strictMode): one detection for each pattern that
\* matches, in pattern order
detectSecrets(content, strictMode) ==
    LET patterns == IF strictMode
                    THEN SelectSeq(SECRET_PATTERNS, LAMBDA p : p.highConfidence)
                    ELSE SECRET_PATTERNS
        found == SelectSeq(patterns, LAMBDA p : includes(content, p.literal))
    IN  [i \in DOMAIN found |-> [type |-> found[i].type, match |-> found[i].literal]]

\* the maximal runs of token characters in the text, left to right: what a
\* global regex over a character class matches
Runs(text) ==
    LET isToken(i) == i \in DOMAIN text /\ text[i] \in TokenChars
        starts == SelectSeq([i \in DOMAIN text |-> i],
                            LAMBDA i : isToken(i) /\ ~isToken(i - 1))
        endOf(i) == CHOOSE j \in i..Len(text) :
                        /\ \A k \in i..j : isToken(k)
                        /\ ~isToken(j + 1)
    IN  [n \in DOMAIN starts |-> SubSeq(text, starts[n], endOf(starts[n]))]

\* the distinct members of a sequence of runs, as detections of one type
Detections(runs, type) ==
    LET first == SelectSeq([i \in DOMAIN runs |-> i],
                           LAMBDA i : \A j \in 1..(i - 1) : runs[j] # runs[i])
    IN  [n \in DOMAIN first |-> [type |-> type, match |-> runs[first[n]]]]

\* detectBase64Secrets(content)
detectBase64Secrets(content) ==
    SelectSeq(Runs(content), LAMBDA run : run \in Base64Secrets)

\* detectHighEntropyStrings(content, config)
detectHighEntropyStrings(content) ==
    SelectSeq(Runs(content), LAMBDA run : run \in HighEntropyStrings)

\* one of the three loops of redactSecrets over its detections; st holds
\* redacted, alreadyRedacted, redactionCounts and events
RECURSIVE sweep(_, _, _, _)
sweep(st, detections, method, opts) ==
    IF detections = <<>> THEN st
    ELSE LET detection == Head(detections)
             skipped == \/ detection.match \in st.alreadyRedacted
                        \/ isWhitelisted(detection.match, opts.whitelist)
                        \/ method = "base64" /\ ~includes(st.redacted, detection.match)
                        \/ method = "entropy" /\ ~looksLikeSecret(detection.match)
             count == IF detection.type \in DOMAIN st.redactionCounts
                      THEN st.redactionCounts[detection.type] ELSE 0
             done ==
                 [redacted |-> splitJoin(st.redacted, detection.match,
                                         createPlaceholder(opts.placeholder, detection.type)),
                  alreadyRedacted |-> st.alreadyRedacted \cup {detection.match},
                  redactionCounts |-> MapSet(st.redactionCounts, detection.type, count + 1),
                  events |-> IF opts.logRedactions
                             THEN Append(st.events, [type |-> detection.type,
                                                     method |-> method,
                                                     originalLength |-> Len(detection.match)])
                             ELSE st.events]
         IN  sweep(IF skipped THEN st ELSE done, Tail(detections), method, opts)

\* redactSecrets(content, opts)
redactSecrets(content, opts) ==
    LET start == [redacted |-> content, alreadyRedacted |-> {}, redactionCounts |-> <<>>,
                  events |-> <<>>]
        step1 == sweep(start, detectSecrets(content, opts.strictPatterns), "pattern", opts)
        step2 == IF opts.detectBase64
                 THEN sweep(step1, Detections(detectBase64Secrets(content), "BASE64_SECRET"),
                            "base64", opts)
                 ELSE step1
        step3 == IF opts.detectEntropy
                 THEN sweep(step2, [i \in DOMAIN detectHighEntropyStrings(step2.redacted) |->
                                       [type |-> "HIGH_ENTROPY",
                                        match |-> detectHighEntropyStrings(step2.redacted)[i]]],
                            "entropy", opts)
                 ELSE step2
    IN  [redacted |-> step3.redacted, modified |-> step3.redacted # content,
         redactionCounts |-> step3.redactionCounts, events |-> step3.events]

\* containsSecretsQuick(content, opts)
containsSecretsQuick(content, opts) ==
    \/ detectSecrets(content, opts.strictPatterns) # <<>>
    \/ opts.detectBase64 /\ detectBase64Secrets(content) # <<>>
    \/ /\ opts.detectEntropy
       /\ \E i \in DOMAIN detectHighEntropyStrings(content) :
              looksLikeSecret(detectHighEntropyStrings(content)[i])

\* what the three sweeps of redactSecrets match as a secret in the content:
\* the pattern matches, the base64 secrets, and the high-entropy strings of
\* the residual text that look like a secret
MatchedSecrets(content, opts) ==
    LET step1 == sweep([redacted |-> content, alreadyRedacted |-> {},
                        redactionCounts |-> <<>>, events |-> <<>>],
                       detectSecrets(content, opts.strictPatterns), "pattern", opts)
        step2 == IF opts.detectBase64
                 THEN sweep(step1, Detections(detectBase64Secrets(content), "BASE64_SECRET"),
                            "base64", opts)
                 ELSE step1
    IN  {d.match : d \in Range(detectSecrets(content, opts.strictPatterns))}
            \cup (IF opts.detectBase64 THEN Range(detectBase64Secrets(content)) ELSE {})
            \cup (IF opts.detectEntropy
                  THEN {m \in Range(detectHighEntropyStrings(step2.redacted)) :
                            looksLikeSecret(m)}
                  ELSE {})

RedactorOther ==
    UNCHANGED <<now, pendingConfirmations, gateCfg, idNonce, requestedVia, confirmCount,
                policyCfg, sessionUsage, auditVars, limiterHist, tokenVars, skillVars,
                navVars, sanitizerCfg, redactorCfg>>

\* the next character of the outbound text is produced
Compose(char) ==
    /\ Len(outbound) < MaxChars
    /\ outbound' = Append(outbound, char)
    /\ ret' = [op |-> "compose", gate |-> 0]
    /\ RedactorOther

\* createRedactionFilter(opts).redact(content)
Redact ==
    /\ ret' = [op |-> "redact", gate |-> 0, content |-> outbound,
               result |-> redactSecrets(outbound, redactorCfg)]
    /\ UNCHANGED outbound
    /\ RedactorOther

\* createRedactionFilter(opts).containsSecrets(content)
ContainsSecrets ==
    /\ ret' = [op |-> "containsSecrets", gate |-> 0, content |-> outbound,
               result |-> containsSecretsQuick(outbound, redactorCfg)]
    /\ UNCHANGED outbound
    /\ RedactorOther

\* the default options, and options with strict patterns, with a sweep
\* switched off, with a whitelist entry, and with an empty placeholder
RedactorConfigs ==
    {[DEFAULT_REDACTION_OPTIONS EXCEPT !.strictPatterns = strict, !.detectBase64 = sweeps,
                                       !.detectEntropy = sweeps, !.whitelist = whitelist,
                                       !.placeholder = placeholder] :
        strict \in BOOLEAN, sweeps \in BOOLEAN,
        whitelist \in {<<>>, << <<"a", "b">> >>},
        placeholder \in {DEFAULT_REDACTION_OPTIONS.placeholder, <<>>}}

InitRedactor ==
    /\ InitGateState
    /\ gateCfg \in GateConfigs
    /\ policyCfg = DEFAULT_POLICY_CONFIG
    /\ sessionUsage = <<>>
    /\ auditCfg = DEFAULT_AUDIT_CONFIG
    /\ InitAuditState
    /\ InitLimiterHist
    /\ tokenCfg = DEFAULT_TOKEN_STORE_CONFIG
    /\ InitTokenState
    /\ InitSkillState
    /\ InitNavState
    /\ sanitizerCfg = DEFAULT_SANITIZER_CONFIG
    /\ redactorCfg \in RedactorConfigs
    /\ outbound = <<>>

NextRedactor ==
    \/ \E char \in Alphabet : Compose(char)
    \/ Redact
    \/ ContainsSecrets

SpecRedactor == InitRedactor /\ [][NextRedactor]_vars

=============================================================================
